---- MODULE Spec2Model ----
(***************************************************************************)
(* xpp2graph: parsing of AOT export documents into an IR, lexical call and *)
(* field-access extraction from method bodies, and synchronisation of the  *)
(* IR into a property graph (src/pipeline/parser.py, src/ir/models.py,     *)
(* src/graph/loader.py, src/pipeline/ingest.py).                           *)
(*                                                                         *)
(* Text is modelled as a sequence of one-character strings, so that the    *)
(* regular expressions, strip() and the "/"-join act on characters.        *)
(* Python's None is the value None below; it is no character sequence.     *)
(***************************************************************************)
EXTENDS Integers, Sequences, FiniteSets, Bags, TLC

VARIABLES
    batch,      \* the documents handed to ingest: [classes, tables] elements in document order
    classes,    \* parser output: dict element_id -> ClassIR, in insertion order
    tables,     \* parser output: dict element_id -> TableIR, in insertion order
    calls,      \* the store calls sync_ir issues for (classes, tables), in program order
    pc,         \* index in calls of the next store call of the running sync_ir
    phase,      \* position of the ingest/sync_ir run
    nodes,      \* graph store: bag of <<label, id>>
    rels,       \* graph store: bag of <<start label, start id, type, end label, end id>>
    nodeProps,  \* graph store: <<label, id>> -> the node's properties (key -> value)
    schema,     \* graph store: constraints and indexes created so far
    ddl,        \* the schema statements the running ingest has issued
    loader,     \* the GraphLoader of the running ingest: "none", "open" or "closed"
    result,     \* what ingest returned: NoResult or the IngestionResult
    syncs,      \* number of sync_ir invocations of the running ingest
    runNo,      \* number of the current sync_ir run against this store
    prev,       \* the store's graph when the previous run ended
    same,       \* TRUE when the current run syncs the IR of the previous run again
    txt,        \* method analyzer input: [source, model, lookup]
    analysis,   \* method analyzer output: [done, called, accesses]
    idq,        \* identity scheme input: two (model, segments) argument lists
    idr,        \* identity scheme output: [made, id, id2, resolved, base_id]
    conc        \* two concurrent sync_ir runs: [calls, pc, overlapped]

vars == <<batch, classes, tables, calls, pc, phase, nodes, rels, nodeProps, schema, ddl, loader, result, syncs, runNo, prev, same, txt, analysis, idq, idr, conc>>

syncVars == <<batch, classes, tables, calls, pc, phase, nodes, rels, nodeProps, schema, ddl, loader, result, syncs, runNo, prev, same>>

textVars == <<txt, analysis>>

idVars == <<idq, idr>>

concVars == <<conc>>

-----------------------------------------------------------------------------
(* Bounds *)

\* number of sync_ir runs against one store
MaxRuns == 2

\* number of text fragments concatenated into a method body for the analyzer
MaxFrags == 3

\* number of segments handed to parse_element_id after the model name
MaxSegs == 2

-----------------------------------------------------------------------------
(* Characters and strings *)

None == <<"None">>

Truthy(s) == s # None /\ s # <<>>

Upper == {"A", "B", "C", "D", "E", "F", "G", "H", "I", "J", "K", "L", "M", "N", "O", "P", "Q", "R", "S", "T", "U", "V", "W", "X", "Y", "Z"}

Lower == {"a", "b", "c", "d", "e", "f", "g", "h", "i", "j", "k", "l", "m", "n", "o", "p", "q", "r", "s", "t", "u", "v", "w", "x", "y", "z"}

Digit == {"0", "1", "2", "3", "4", "5", "6", "7", "8", "9"}

Whitespace == {" ", "\t", "\n", "\r", "\f"}

LowerOf == "A" :> "a" @@ "B" :> "b" @@ "C" :> "c" @@ "D" :> "d" @@ "E" :> "e" @@ "F" :> "f" @@ "G" :> "g" @@ "H" :> "h" @@ "I" :> "i" @@ "J" :> "j" @@ "K" :> "k" @@ "L" :> "l" @@ "M" :> "m" @@ "N" :> "n" @@ "O" :> "o" @@ "P" :> "p" @@ "Q" :> "q" @@ "R" :> "r" @@ "S" :> "s" @@ "T" :> "t" @@ "U" :> "u" @@ "V" :> "v" @@ "W" :> "w" @@ "X" :> "x" @@ "Y" :> "y" @@ "Z" :> "z"

\* [A-Za-z_]
IsIdStart(c) == c \in Upper \cup Lower \cup {"_"}

\* [A-Za-z0-9_], also the word characters of \b
IsWord(c) == IsIdStart(c) \/ c \in Digit

\* re.IGNORECASE on one character
Fold(c) == IF c \in Upper THEN LowerOf[c] ELSE c

FoldSeq(s) == [i \in 1..Len(s) |-> Fold(s[i])]

RECURSIVE Strip(_)
\* str.strip()
Strip(s) ==
    IF s = <<>> THEN s
    ELSE IF Head(s) \in Whitespace THEN Strip(Tail(s))
    ELSE IF s[Len(s)] \in Whitespace THEN Strip(SubSeq(s, 1, Len(s) - 1))
    ELSE s

RECURSIVE Join(_)
\* "/".join(parts)
Join(parts) ==
    IF parts = <<>> THEN <<>>
    ELSE IF Len(parts) = 1 THEN parts[1]
    ELSE parts[1] \o <<"/">> \o Join(Tail(parts))

\* [f(x) for x in seq if keep(x)] for keep = Truthy
RECURSIVE StripTruthy(_)
StripTruthy(segments) ==
    IF segments = <<>> THEN <<>>
    ELSE IF Truthy(Head(segments)) THEN <<Strip(Head(segments))>> \o StripTruthy(Tail(segments))
    ELSE StripTruthy(Tail(segments))

\* parse_element_id(model_name, *segments)
parse_element_id(model_name, segments) ==
    Join(<<Strip(model_name)>> \o StripTruthy(segments))

\* "/" in s
HasSlash(s) == \E i \in 1..Len(s) : s[i] = "/"

-----------------------------------------------------------------------------
(* Regular expressions of the method analyzer *)

RECURSIVE WordEnd(_, _)
\* first position >= p that holds no word character (Len(s) + 1 at the end)
WordEnd(s, p) ==
    IF p > Len(s) \/ ~IsWord(s[p]) THEN p ELSE WordEnd(s, p + 1)

RECURSIVE SpaceEnd(_, _)
\* \s* : first position >= p that holds no whitespace
SpaceEnd(s, p) ==
    IF p > Len(s) \/ s[p] \notin Whitespace THEN p ELSE SpaceEnd(s, p + 1)

\* \b(ident)<sep>(ident)\b tried at position p: <<>> or <<[g1, g2, next]>>
MatchAt(s, sep, p) ==
    LET q == WordEnd(s, p)
        r == q + Len(sep)
        e == WordEnd(s, r)
    IN  IF /\ p <= Len(s)
           /\ IsIdStart(s[p])
           /\ (p = 1 \/ ~IsWord(s[p - 1]))
           /\ r <= Len(s)
           /\ SubSeq(s, q, r - 1) = sep
           /\ IsIdStart(s[r])
        THEN <<[g1 |-> SubSeq(s, p, q - 1), g2 |-> SubSeq(s, r, e - 1), next |-> e]>>
        ELSE <<>>

RECURSIVE FindFrom(_, _, _)
\* pattern.findall(s): the non-overlapping matches, scanning left to right
FindFrom(s, sep, p) ==
    IF p > Len(s) THEN <<>>
    ELSE LET m == MatchAt(s, sep, p)
         IN  IF m # <<>>
             THEN <<<<m[1].g1, m[1].g2>>>> \o FindFrom(s, sep, m[1].next)
             ELSE FindFrom(s, sep, p + 1)

\* _CALL_PATTERN.findall(source)
CallMatches(source) == FindFrom(source, <<":", ":">>, 1)

\* _FIELD_PATTERN.findall(source)
FieldMatches(source) == FindFrom(source, <<".">>, 1)

\* AOTParser._is_write: re.escape(table)\.re.escape(field)\s*:= , IGNORECASE, searched anywhere
IsWrite(source, table_name, field_name) ==
    LET pat == FoldSeq(table_name \o <<".">> \o field_name)
        n == Len(pat)
    IN  \E p \in 1..Len(source) :
            /\ p + n - 1 <= Len(source)
            /\ FoldSeq(SubSeq(source, p, p + n - 1)) = pat
            /\ LET q == SpaceEnd(source, p + n)
               IN  /\ q + 1 <= Len(source)
                   /\ source[q] = ":"
                   /\ source[q + 1] = "="

-----------------------------------------------------------------------------
(* Dictionaries: insertion-ordered sequences of [k, v] *)

HasKey(d, k) == \E i \in 1..Len(d) : d[i].k = k

Get(d, k) == d[CHOOSE i \in 1..Len(d) : d[i].k = k].v

\* d.setdefault(k, v): a present key keeps its value
Put_KeepFirst(d, k, v) ==
    IF HasKey(d, k) THEN d ELSE Append(d, [k |-> k, v |-> v])

\* d[k] = v : a present key keeps its place
Put(d, k, v) ==
    IF HasKey(d, k)
    THEN [i \in 1..Len(d) |-> IF d[i].k = k THEN [k |-> k, v |-> v] ELSE d[i]]
    ELSE Append(d, [k |-> k, v |-> v])

\* list(d.values())
Values(d) == [i \in 1..Len(d) |-> d[i].v]

Elems(seq) == {seq[i] : i \in 1..Len(seq)}

-----------------------------------------------------------------------------
(* Method analyzer *)

RECURSIVE DedupIds(_, _, _)
\* the loop of _extract_called_methods over the matches, with its seen set
DedupIds(matches, model, seen) ==
    IF matches = <<>> THEN <<>>
    ELSE LET method_id == parse_element_id(model, <<Head(matches)[1], Head(matches)[2]>>)
         IN  IF method_id \notin seen
             THEN <<method_id>> \o DedupIds(Tail(matches), model, seen \cup {method_id})
             ELSE DedupIds(Tail(matches), model, seen)

\* _extract_called_methods without its seen set: every match is appended
ExtractCalledMethods_NoDedup(source, model) ==
    IF ~Truthy(source) THEN <<>>
    ELSE [i \in 1..Len(CallMatches(source)) |->
            parse_element_id(model, <<CallMatches(source)[i][1], CallMatches(source)[i][2]>>)]

\* AOTParser._extract_called_methods(source, model)
ExtractCalledMethods(source, model) ==
    IF ~Truthy(source) THEN <<>>
    ELSE DedupIds(CallMatches(source), model, {})

RECURSIVE AccessesOf(_, _, _, _)
\* the loop of _extract_field_accesses over the matches
AccessesOf(matches, source, model, table_field_lookup) ==
    IF matches = <<>> THEN <<>>
    ELSE LET table_name == Head(matches)[1]
             field_name == Head(matches)[2]
             rest == AccessesOf(Tail(matches), source, model, table_field_lookup)
         IN  IF ~HasKey(table_field_lookup, table_name) THEN rest
             ELSE IF field_name \notin Get(table_field_lookup, table_name) THEN rest
             ELSE <<[table_name |-> table_name,
                     field_name |-> field_name,
                     model |-> model,
                     access_type |-> IF IsWrite(source, table_name, field_name)
                                     THEN "write" ELSE "read"]>> \o rest

\* _extract_field_accesses without the two lookup tests: every X.Y match is recorded
ExtractFieldAccesses_NoLookup(source, model, table_field_lookup) ==
    IF ~Truthy(source) THEN <<>>
    ELSE [i \in 1..Len(FieldMatches(source)) |->
            [table_name |-> FieldMatches(source)[i][1],
             field_name |-> FieldMatches(source)[i][2],
             model |-> model,
             access_type |-> IF IsWrite(source, FieldMatches(source)[i][1], FieldMatches(source)[i][2])
                             THEN "write" ELSE "read"]]

\* AOTParser._extract_field_accesses(source, model, table_field_lookup)
ExtractFieldAccesses(source, model, table_field_lookup) ==
    IF ~Truthy(source) THEN <<>>
    ELSE AccessesOf(FieldMatches(source), source, model, table_field_lookup)

\* FieldAccessIR.target_field_id
target_field_id(access) ==
    parse_element_id(access.model, <<access.table_name, access.field_name>>)

-----------------------------------------------------------------------------
(* IR model and identity *)

\* ClassIR.element_id / TableIR.element_id
element_id(ir) == parse_element_id(ir.model, <<ir.name>>)

\* MethodIR.element_id
method_element_id(method_ir) ==
    parse_element_id(method_ir.model, <<method_ir.class_name, method_ir.name>>)

\* FieldIR.element_id
field_element_id(field_ir) ==
    parse_element_id(field_ir.model, <<field_ir.table_name, field_ir.name>>)

-----------------------------------------------------------------------------
(* Document walker and type parsers.  A class element is                   *)
(* [name, ctx, file, base, methods], a method element [name, source], a    *)
(* table element [name, ctx, file, fields] whose fields are the names of   *)
(* its field elements; ctx is the name of the enclosing model/package      *)
(* element (None outside any), file the document being read.  A name that  *)
(* no attribute or child gives is None.  A document is named by            *)
(* <<path, digits>>, digits being str(abs(hash(path)) & 0xFFFF) in the     *)
(* running process.                                                        *)

\* the model name of _parse_class/_parse_table outside any model element: "UNKNOWN"
UNKNOWN == <<"U", "N", "K", "N", "O", "W", "N">>

\* a or b
Or(a, b) == IF Truthy(a) THEN a ELSE b

\* AOTParser._find_text on a child with this text (None: no child, or no text)
FindText(text) == IF Truthy(text) THEN Strip(text) ELSE None

\* "Class", "Table", "Field", "Unnamed", "_Placeholder"
PrefixClass == <<"C", "l", "a", "s", "s">>

PrefixTable == <<"T", "a", "b", "l", "e">>

PrefixField == <<"F", "i", "e", "l", "d">>

Unnamed == <<"U", "n", "n", "a", "m", "e", "d">>

PlaceholderSuffix == <<"_", "P", "l", "a", "c", "e", "h", "o", "l", "d", "e", "r">>

\* AOTParser._placeholder_name(prefix, suffix) while current_file is being read
PlaceholderName(prefix, suffix, current_file) ==
    LET stripped == Or(Strip(prefix), Unnamed)
        base == IF Truthy(suffix) THEN stripped \o <<"_">> \o suffix ELSE stripped
    IN  IF current_file # None THEN base \o <<"_">> \o current_file[2]
        ELSE base \o PlaceholderSuffix

\* AOTParser._parse_method: <<>> for a skipped element (no name), else <<method_ir>>
ParseMethod(element, class_ir) ==
    LET source == Or(FindText(element.source), None)
    IN  IF ~Truthy(element.name) THEN <<>>
        ELSE <<[name |-> element.name,
                model |-> class_ir.model,
                class_name |-> class_ir.name,
                body |-> source,
                called_methods |-> ExtractCalledMethods(source, class_ir.model),
                field_accesses |-> <<>>]>>

RECURSIVE AddMethods(_, _, _)
\* the loop of _parse_class over the method elements, with ClassIR.add_method
AddMethods(elements, class_ir, methods) ==
    IF elements = <<>> THEN methods
    ELSE LET method_ir == ParseMethod(Head(elements), class_ir)
         IN  AddMethods(Tail(elements), class_ir,
                        IF method_ir = <<>> THEN methods
                        ELSE Put(methods, method_ir[1].name, method_ir[1]))

\* AOTParser._parse_class
ParseClass(element, model, package, current_file) ==
    LET class_ir == [name |-> IF Truthy(element.name) THEN element.name
                              ELSE PlaceholderName(PrefixClass, None, current_file),
                     model |-> Or(model, UNKNOWN),
                     package |-> package,
                     base_class |-> Or(FindText(element.base), None),
                     methods |-> <<>>]
    IN  [class_ir EXCEPT !.methods = AddMethods(element.methods, class_ir, <<>>)]

\* AOTParser._parse_field
ParseField(element, table_ir, current_file) ==
    [name |-> IF Truthy(element) THEN element
              ELSE PlaceholderName(PrefixField, table_ir.name, current_file),
     table_name |-> table_ir.name,
     model |-> table_ir.model]

RECURSIVE AddFields(_, _, _, _)
\* the loop of _parse_table over the field elements, with TableIR.add_field
AddFields(elements, table_ir, fields, current_file) ==
    IF elements = <<>> THEN fields
    ELSE LET field_ir == ParseField(Head(elements), table_ir, current_file)
         IN  AddFields(Tail(elements), table_ir, Put(fields, field_ir.name, field_ir),
                       current_file)

\* AOTParser._parse_table
ParseTable(element, model, package, current_file) ==
    LET table_ir == [name |-> IF Truthy(element.name) THEN element.name
                              ELSE PlaceholderName(PrefixTable, None, current_file),
                     model |-> Or(model, UNKNOWN),
                     package |-> package,
                     fields |-> <<>>]
    IN  [table_ir EXCEPT !.fields = AddFields(element.fields, table_ir, <<>>, current_file)]

RECURSIVE WalkClasses(_, _)
\* AOTParser._walk on the class elements in document order: classes[element_id] = class_ir
WalkClasses(elements, acc) ==
    IF elements = <<>> THEN acc
    ELSE LET class_ir == ParseClass(Head(elements), Head(elements).ctx, Head(elements).ctx,
                                   Head(elements).file)
         IN  WalkClasses(Tail(elements), Put(acc, element_id(class_ir), class_ir))

RECURSIVE WalkTables(_, _)
\* AOTParser._walk on the table elements in document order: tables[element_id] = table_ir
WalkTables(elements, acc) ==
    IF elements = <<>> THEN acc
    ELSE LET table_ir == ParseTable(Head(elements), Head(elements).ctx, Head(elements).ctx,
                                   Head(elements).file)
         IN  WalkTables(Tail(elements), Put(acc, element_id(table_ir), table_ir))

RECURSIVE TableFieldLookup(_, _)
\* the dict comprehension of _populate_field_accesses: table name -> set of field names
TableFieldLookup(table_irs, acc) ==
    IF table_irs = <<>> THEN acc
    ELSE TableFieldLookup(Tail(table_irs),
                          Put(acc, Head(table_irs).name,
                              {f.name : f \in {Head(table_irs).fields[i].v :
                                               i \in 1..Len(Head(table_irs).fields)}}))

\* AOTParser._populate_field_accesses
PopulateFieldAccesses(class_dict, table_dict) ==
    LET table_field_lookup == TableFieldLookup(Values(table_dict), <<>>)
        WithAccesses(method_ir) ==
            [method_ir EXCEPT !.field_accesses =
                ExtractFieldAccesses(method_ir.body, method_ir.model, table_field_lookup)]
        OfClass(class_ir) ==
            [class_ir EXCEPT !.methods =
                [i \in 1..Len(class_ir.methods) |->
                    [k |-> class_ir.methods[i].k, v |-> WithAccesses(class_ir.methods[i].v)]]]
    IN  [i \in 1..Len(class_dict) |-> [k |-> class_dict[i].k, v |-> OfClass(class_dict[i].v)]]

\* AOTParser.parse
Parse(documents) ==
    LET class_dict == WalkClasses(documents.classes, <<>>)
        table_dict == WalkTables(documents.tables, <<>>)
    IN  [classes |-> PopulateFieldAccesses(class_dict, table_dict), tables |-> table_dict]

-----------------------------------------------------------------------------
(* The walker on whole documents.  An element of a document tree is        *)
(* [tag, name, base, methods, fields, children]: tag is its tag without    *)
(* namespace, name what its Name/name attribute (for a class or table,     *)
(* also its Name child) gives, methods and fields the method and field     *)
(* elements that findall/find return for it, children its child elements   *)
(* in document order.  A document is [file, wellformed, root].             *)

TagModel == <<"m", "o", "d", "e", "l">>

TagPackage == <<"p", "a", "c", "k", "a", "g", "e">>

TagClass == <<"c", "l", "a", "s", "s">>

TagAxClass == <<"a", "x", "c", "l", "a", "s", "s">>

TagTable == <<"t", "a", "b", "l", "e">>

TagAxTable == <<"a", "x", "t", "a", "b", "l", "e">>

\* _walk line 58: tag.lower() in {"model", "package"}
IsContext(element) == FoldSeq(element.tag) \in {TagModel, TagPackage}

\* _walk line 64: tag.lower() in {"axclass", "class"}
IsClass(element) == FoldSeq(element.tag) \in {TagAxClass, TagClass}

\* _walk line 70: tag.lower() in {"axtable", "table"}
IsTable(element) == FoldSeq(element.tag) \in {TagAxTable, TagTable}

\* _walk line 59
CurrentModel(element, current_model) ==
    IF IsContext(element) THEN Or(element.name, current_model) ELSE current_model

\* line 60 acting on package elements only
CurrentPackage_PackageOnly(element, current_package) ==
    IF FoldSeq(element.tag) = TagPackage THEN Or(element.name, current_package)
    ELSE current_package

\* _walk line 60
CurrentPackage(element, current_package) ==
    IF IsContext(element) THEN Or(element.name, current_package) ELSE current_package

RECURSIVE WalkElement(_, _, _, _, _)
RECURSIVE WalkChildren(_, _, _, _, _)
RECURSIVE WalkElement_Descends(_, _, _, _, _)

\* _walk without the two returns: the children of a class or table are walked too
WalkElement_Descends(element, acc, current_model, current_package, current_file) ==
    LET model == CurrentModel(element, current_model)
        package == CurrentPackage(element, current_package)
        class_ir == ParseClass(element, model, package, current_file)
        table_ir == ParseTable(element, model, package, current_file)
        found ==
            IF IsClass(element)
            THEN [acc EXCEPT !.classes = Put(@, element_id(class_ir), class_ir)]
            ELSE IF IsTable(element)
            THEN [acc EXCEPT !.tables = Put(@, element_id(table_ir), table_ir)]
            ELSE acc
    IN  WalkChildren(element.children, found, model, package, current_file)

\* AOTParser._walk(element, classes, tables, current_model, current_package);
\* acc is [classes, tables]
WalkElement(element, acc, current_model, current_package, current_file) ==
    LET model == CurrentModel(element, current_model)
        package == CurrentPackage(element, current_package)
        class_ir == ParseClass(element, model, package, current_file)
        table_ir == ParseTable(element, model, package, current_file)
    IN  IF IsClass(element)
        THEN [acc EXCEPT !.classes = Put(@, element_id(class_ir), class_ir)]
        ELSE IF IsTable(element)
        THEN [acc EXCEPT !.tables = Put(@, element_id(table_ir), table_ir)]
        ELSE WalkChildren(element.children, acc, model, package, current_file)

\* the loop of _walk lines 76-83 over the children, each with the same context
WalkChildren(children, acc, current_model, current_package, current_file) ==
    IF children = <<>> THEN acc
    ELSE WalkChildren(Tail(children),
                      WalkElement(Head(children), acc, current_model, current_package,
                                  current_file),
                      current_model, current_package, current_file)

RECURSIVE WalkDocuments(_, _)
RECURSIVE WalkDocuments_SkipsMalformed(_, _)

\* the loop of parse with a malformed document left out instead of raising
WalkDocuments_SkipsMalformed(paths, acc) ==
    IF paths = <<>> THEN acc
    ELSE IF ~Head(paths).wellformed THEN WalkDocuments(Tail(paths), acc)
    ELSE WalkDocuments(Tail(paths),
                       WalkElement(Head(paths).root, acc, None, None, Head(paths).file))

\* the loop of AOTParser.parse lines 36-40: ET.parse raises on a document that is not
\* well-formed, and the exception leaves parse
WalkDocuments(paths, acc) ==
    IF paths = <<>> THEN acc
    ELSE IF ~Head(paths).wellformed THEN [acc EXCEPT !.raised = TRUE]
    ELSE WalkDocuments(Tail(paths),
                       WalkElement(Head(paths).root, acc, None, None, Head(paths).file))

\* AOTParser.parse(paths) on documents: [raised, classes, tables]
ParseDocuments(paths) ==
    LET walked == WalkDocuments(paths, [raised |-> FALSE, classes |-> <<>>, tables |-> <<>>])
    IN  IF walked.raised THEN [raised |-> TRUE, classes |-> <<>>, tables |-> <<>>]
        ELSE [raised |-> FALSE,
              classes |-> PopulateFieldAccesses(walked.classes, walked.tables),
              tables |-> walked.tables]

-----------------------------------------------------------------------------
(* Graph synchronizer: the store calls of sync_ir, in program order *)

NODE_CLASS == "Class"
NODE_METHOD == "Method"
NODE_TABLE == "Table"
NODE_FIELD == "Field"
NODE_MODEL == "Model"
NODE_PACKAGE == "Package"

REL_EXTENDS == "EXTENDS"
REL_DECLARES_METHOD == "DECLARES_METHOD"
REL_HAS_FIELD == "HAS_FIELD"
REL_CALLS == "CALLS"
REL_READS_FIELD == "READS_FIELD"
REL_WRITES_FIELD == "WRITES_FIELD"
REL_BELONGS_TO_MODEL == "BELONGS_TO_MODEL"
REL_BELONGS_TO_PACKAGE == "BELONGS_TO_PACKAGE"

\* format_node_properties that returns the payload as it is, None values included
FormatNodeProperties_KeepsNone(payload) == payload

\* format_node_properties(payload): the None values are dropped
FormatNodeProperties(payload) ==
    [key \in {k \in DOMAIN payload : payload[k] # None} |-> payload[key]]

\* a _merge_node call; payload is the dict the caller built, properties the dict it
\* hands to _merge_node, id is properties.get("id")
NodeCall(label, payload, properties) ==
    [op |-> "node", label |-> label,
     id |-> IF "id" \in DOMAIN properties THEN properties["id"] ELSE None,
     rel |-> "", end_label |-> "", end_id |-> <<>>,
     payload |-> payload, props |-> properties]

\* a _merge_relationship call
RelCall(start_label, start_id, rel_type, end_label, end_id) ==
    [op |-> "rel", label |-> start_label, id |-> start_id, rel |-> rel_type,
     end_label |-> end_label, end_id |-> end_id, payload |-> <<>>, props |-> <<>>]

\* the payloads of _upsert_class, _upsert_method, _upsert_table and _upsert_field.  The
\* elements here carry no Id, Path, Layer, ExtendedDataType or Type, so aotPath is
\* the fallback built from the names and the other three are None; access, isStatic
\* and lineCount, which are no strings, are left out.
ClassPayload(class_ir) ==
    [id |-> element_id(class_ir), name |-> class_ir.name, aotPath |-> class_ir.name,
     model |-> class_ir.model, package |-> class_ir.package, layer |-> None,
     baseClass |-> class_ir.base_class]

MethodPayload(method_ir) ==
    [id |-> method_element_id(method_ir), name |-> method_ir.name,
     aotPath |-> method_ir.class_name \o <<"/">> \o method_ir.name,
     model |-> method_ir.model, className |-> method_ir.class_name, body |-> method_ir.body]

TablePayload(table_ir) ==
    [id |-> element_id(table_ir), name |-> table_ir.name, aotPath |-> table_ir.name,
     model |-> table_ir.model, package |-> table_ir.package, layer |-> None]

FieldPayload(field_ir) ==
    [id |-> field_element_id(field_ir), name |-> field_ir.name,
     aotPath |-> field_ir.table_name \o <<"/">> \o field_ir.name,
     model |-> field_ir.model, tableName |-> field_ir.table_name,
     extendedDataType |-> None, fieldType |-> None]

\* model_properties / package_properties of _merge_model_relations
NamePayload(name) == [id |-> name, name |-> name]

\* _upsert_class lines 119-130, _upsert_method, _upsert_table lines 180-190, _upsert_field
UpsertNode(label, payload) == NodeCall(label, payload, FormatNodeProperties(payload))

RECURSIVE Flatten(_)
Flatten(seqs) == IF seqs = <<>> THEN <<>> ELSE Head(seqs) \o Flatten(Tail(seqs))

\* parse_related_class_id(class_reference, fallback_model)
parse_related_class_id(class_reference, fallback_model) ==
    IF HasSlash(class_reference) THEN class_reference
    ELSE IF Truthy(class_reference) THEN fallback_model \o <<"/">> \o class_reference
    ELSE None

\* _merge_model_relations without its package branch
MergeModelRelations_NoPackage(node_label, node_id, model_name, package_name) ==
    <<NodeCall(NODE_MODEL, NamePayload(model_name), NamePayload(model_name)),
      RelCall(node_label, node_id, REL_BELONGS_TO_MODEL, NODE_MODEL, model_name)>>

\* GraphLoader._merge_model_relations
MergeModelRelations(node_label, node_id, model_name, package_name) ==
    <<NodeCall(NODE_MODEL, NamePayload(model_name), NamePayload(model_name)),
      RelCall(node_label, node_id, REL_BELONGS_TO_MODEL, NODE_MODEL, model_name)>>
    \o (IF Truthy(package_name)
        THEN <<NodeCall(NODE_PACKAGE, NamePayload(package_name), NamePayload(package_name)),
               RelCall(node_label, node_id, REL_BELONGS_TO_PACKAGE, NODE_PACKAGE, package_name)>>
        ELSE <<>>)

\* the EXTENDS call of _upsert_class (lines 151-161)
ExtendsCalls(class_ir) ==
    IF Truthy(class_ir.base_class)
    THEN LET base_id == parse_related_class_id(class_ir.base_class, class_ir.model)
         IN  IF Truthy(base_id)
             THEN <<RelCall(NODE_CLASS, element_id(class_ir), REL_EXTENDS, NODE_CLASS, base_id)>>
             ELSE <<>>
    ELSE <<>>

\* _upsert_class without the DECLARES_METHOD upserts of lines 142-149
UpsertClass_NoDeclares(class_ir) ==
    <<UpsertNode(NODE_CLASS, ClassPayload(class_ir))>>
    \o MergeModelRelations(NODE_CLASS, element_id(class_ir), class_ir.model, class_ir.package)
    \o [i \in 1..Len(class_ir.methods) |->
            UpsertNode(NODE_METHOD, MethodPayload(class_ir.methods[i].v))]
    \o ExtendsCalls(class_ir)

\* GraphLoader._upsert_class, with _upsert_method
UpsertClass(class_ir) ==
    <<UpsertNode(NODE_CLASS, ClassPayload(class_ir))>>
    \o MergeModelRelations(NODE_CLASS, element_id(class_ir), class_ir.model, class_ir.package)
    \o Flatten([i \in 1..Len(class_ir.methods) |->
            <<UpsertNode(NODE_METHOD, MethodPayload(class_ir.methods[i].v)),
              RelCall(NODE_CLASS, element_id(class_ir), REL_DECLARES_METHOD,
                      NODE_METHOD, method_element_id(class_ir.methods[i].v))>>])
    \o ExtendsCalls(class_ir)

\* GraphLoader._upsert_table, with _upsert_field
UpsertTable(table_ir) ==
    <<UpsertNode(NODE_TABLE, TablePayload(table_ir))>>
    \o MergeModelRelations(NODE_TABLE, element_id(table_ir), table_ir.model, table_ir.package)
    \o Flatten([i \in 1..Len(table_ir.fields) |->
            <<UpsertNode(NODE_FIELD, FieldPayload(table_ir.fields[i].v)),
              RelCall(NODE_TABLE, element_id(table_ir), REL_HAS_FIELD,
                      NODE_FIELD, field_element_id(table_ir.fields[i].v))>>])

\* _upsert_method_relationships matching the CALLS end node under label Class
MethodRelationships_CallsToClass(method_ir) ==
    [i \in 1..Len(method_ir.called_methods) |->
        RelCall(NODE_METHOD, method_element_id(method_ir), REL_CALLS,
                NODE_CLASS, method_ir.called_methods[i])]
    \o [i \in 1..Len(method_ir.field_accesses) |->
        RelCall(NODE_METHOD, method_element_id(method_ir),
                IF method_ir.field_accesses[i].access_type = "read"
                THEN REL_READS_FIELD ELSE REL_WRITES_FIELD,
                NODE_FIELD, target_field_id(method_ir.field_accesses[i]))]

\* the calls of _upsert_method_relationships for one method
MethodRelationships(method_ir) ==
    [i \in 1..Len(method_ir.called_methods) |->
        RelCall(NODE_METHOD, method_element_id(method_ir), REL_CALLS,
                NODE_METHOD, method_ir.called_methods[i])]
    \o [i \in 1..Len(method_ir.field_accesses) |->
        RelCall(NODE_METHOD, method_element_id(method_ir),
                IF method_ir.field_accesses[i].access_type = "read"
                THEN REL_READS_FIELD ELSE REL_WRITES_FIELD,
                NODE_FIELD, target_field_id(method_ir.field_accesses[i]))]

\* GraphLoader._upsert_method_relationships
UpsertMethodRelationships(class_ir) ==
    Flatten([i \in 1..Len(class_ir.methods) |-> MethodRelationships(class_ir.methods[i].v)])

\* GraphLoader.sync_ir after ensure_schema: the three loops
SyncCalls(class_list, table_list) ==
    Flatten([i \in 1..Len(class_list) |-> UpsertClass(class_list[i])])
    \o Flatten([i \in 1..Len(table_list) |-> UpsertTable(table_list[i])])
    \o Flatten([i \in 1..Len(class_list) |-> UpsertMethodRelationships(class_list[i])])

-----------------------------------------------------------------------------
(* Graph store: what one Cypher statement does to the graph [nodes, rels]  *)

\* CREATE (n:label {id: $id}) in place of MERGE
MergeNode_Create(g, label, id) ==
    [g EXCEPT !.nodes = @ (+) SetToBag({<<label, id>>})]

\* MERGE (n:label {id: $id}) SET n += $props
MergeNode(g, label, id) ==
    IF BagIn(<<label, id>>, g.nodes) THEN g
    ELSE [g EXCEPT !.nodes = @ (+) SetToBag({<<label, id>>})]

\* MERGE (start:start_label {id})-[r:rel_type]->(end:end_label {id}) without the two
\* MATCH clauses: a missing endpoint is created together with the relationship
MergeRelationship_CreatesEndpoints(g, start_label, start_id, rel_type, end_label, end_id) ==
    LET r == <<start_label, start_id, rel_type, end_label, end_id>>
        missing == {n \in {<<start_label, start_id>>, <<end_label, end_id>>} : ~BagIn(n, g.nodes)}
    IN  IF BagIn(r, g.rels) THEN g
        ELSE [nodes |-> g.nodes (+) SetToBag(missing), rels |-> g.rels (+) SetToBag({r})]

\* MERGE of the relationship without the two MATCH clauses deciding whether it is
\* written: it is written whether or not the endpoints exist
MergeRelationship_NoMatch(g, start_label, start_id, rel_type, end_label, end_id) ==
    LET r == <<start_label, start_id, rel_type, end_label, end_id>>
    IN  IF BagIn(r, g.rels) THEN g ELSE [g EXCEPT !.rels = @ (+) SetToBag({r})]

\* MATCH (start:start_label {id}) MATCH (end:end_label {id}) MERGE (start)-[r:rel_type]->(end)
MergeRelationship(g, start_label, start_id, rel_type, end_label, end_id) ==
    LET rows == CopiesIn(<<start_label, start_id>>, g.nodes)
                    * CopiesIn(<<end_label, end_id>>, g.nodes)
        r == <<start_label, start_id, rel_type, end_label, end_id>>
        have == CopiesIn(r, g.rels)
    IN  IF rows <= have THEN g
        ELSE [g EXCEPT !.rels = @ (+) [x \in {r} |-> rows - have]]

\* SET n += $props on the properties old of node n: a key of the map is set to the
\* map's value, a key mapped to null is removed, every other key of n is kept
SetProperties(old, new) ==
    LET kept == {k \in DOMAIN old : k \notin DOMAIN new}
        set == {k \in DOMAIN new : new[k] # None}
    IN  [k \in kept \cup set |-> IF k \in set THEN new[k] ELSE old[k]]

\* the properties of node <<label, id>> after MERGE (n:label {id: $id}) SET n += $props
MergedProperties(store, label, id, properties) ==
    SetProperties(IF <<label, id>> \in DOMAIN store THEN store[<<label, id>>] ELSE [id |-> id],
                  properties)

\* DEFAULT_SCHEMA.node_keys without the entry of Package
NodeKeys_NoPackage ==
    << <<NODE_CLASS, "id">>, <<NODE_METHOD, "id">>, <<NODE_TABLE, "id">>,
       <<NODE_FIELD, "id">>, <<NODE_MODEL, "id">> >>

\* DEFAULT_SCHEMA.node_keys, in the order of the dict
NodeKeys ==
    << <<NODE_CLASS, "id">>, <<NODE_METHOD, "id">>, <<NODE_TABLE, "id">>,
       <<NODE_FIELD, "id">>, <<NODE_MODEL, "id">>, <<NODE_PACKAGE, "id">> >>

\* DEFAULT_SCHEMA.node_indexes, in the order of the dict
NodeIndexes ==
    << <<NODE_CLASS, "name">>, <<NODE_CLASS, "model">>,
       <<NODE_METHOD, "name">>, <<NODE_METHOD, "className">>, <<NODE_METHOD, "model">>,
       <<NODE_TABLE, "name">>, <<NODE_TABLE, "model">>,
       <<NODE_FIELD, "name">>, <<NODE_FIELD, "tableName">>, <<NODE_FIELD, "model">>,
       <<NODE_MODEL, "name">>, <<NODE_PACKAGE, "name">> >>

\* the statements of ensure_constraints, in program order:
\* CREATE CONSTRAINT IF NOT EXISTS per node key, then CREATE INDEX IF NOT EXISTS per index
ConstraintStatements ==
    [i \in 1..Len(NodeKeys) |-> <<"constraint", NodeKeys[i][1], NodeKeys[i][2]>>]
    \o [i \in 1..Len(NodeIndexes) |-> <<"index", NodeIndexes[i][1], NodeIndexes[i][2]>>]

\* the statements of ensure_indexes, in program order
IndexStatements ==
    << <<"fulltext", "Searchable", "codex_keyword_index">>,
       <<"vector", "Searchable", "codex_vector_index">> >>

-----------------------------------------------------------------------------
(* Names and texts the inputs are drawn from *)

\* the document "a.xml" and the digits of its path hash
DocA == <<<<"a", ".", "x", "m", "l">>, <<"7">>>>

\* "ModuleA"
ModuleA == <<"M", "o", "d", "u", "l", "e", "A">>

\* "ModuleB"
ModuleB == <<"M", "o", "d", "u", "l", "e", "B">>

\* "CustomerValidator"
CustomerValidator == <<"C", "u", "s", "t", "o", "m", "e", "r", "V", "a", "l", "i", "d", "a", "t", "o", "r">>

\* "BaseValidator"
BaseValidator == <<"B", "a", "s", "e", "V", "a", "l", "i", "d", "a", "t", "o", "r">>

\* "validate"
Validate == <<"v", "a", "l", "i", "d", "a", "t", "e">>

\* "log"
Log == <<"l", "o", "g">>

\* "CustTable"
CustTable == <<"C", "u", "s", "t", "T", "a", "b", "l", "e">>

\* "Blocked"
Blocked == <<"B", "l", "o", "c", "k", "e", "d">>

\* "CustTable.Blocked"
TxtRead == <<"C", "u", "s", "t", "T", "a", "b", "l", "e", ".", "B", "l", "o", "c", "k", "e", "d">>

\* ":="
TxtAssign == <<":", "=">>

\* " "
TxtSpace == <<" ">>

\* "X"
TxtX == <<"X">>

\* "BaseValidator::log();"
TxtCallLog == <<"B", "a", "s", "e", "V", "a", "l", "i", "d", "a", "t", "o", "r", ":", ":", "l", "o", "g", "(", ")", ";">>

\* "Foo::bar();"
TxtCallBar == <<"F", "o", "o", ":", ":", "b", "a", "r", "(", ")", ";">>

\* " custtable.blocked:="
TxtLowerWrite == <<" ", "c", "u", "s", "t", "t", "a", "b", "l", "e", ".", "b", "l", "o", "c", "k", "e", "d", ":", "=">>

\* "myVar.SomeProp"
TxtMyVar == <<"m", "y", "V", "a", "r", ".", "S", "o", "m", "e", "P", "r", "o", "p">>

Fragments == {TxtRead, TxtAssign, TxtSpace, TxtX, TxtCallLog, TxtCallBar, TxtLowerWrite, TxtMyVar}

RECURSIVE Concats(_)
\* the texts made of at most n fragments
Concats(n) ==
    IF n = 0 THEN {<<>>}
    ELSE LET shorter == Concats(n - 1)
         IN  shorter \cup {f \o s : f \in Fragments, s \in shorter}

\* method bodies given to the analyzer: absent, empty, or up to MaxFrags fragments
TextBodies == {None} \cup Concats(MaxFrags)

\* table_field_lookup values given to the analyzer
TextLookups ==
    { <<>>,
      <<[k |-> CustTable, v |-> {Blocked}]>>,
      <<[k |-> CustTable, v |-> {}]>> }

\* "if (CustTable.Blocked) { CustTable.Blocked := false; } BaseValidator::log();"
TxtValidateBody == <<"i", "f", " ", "(", "C", "u", "s", "t", "T", "a", "b", "l", "e", ".", "B", "l", "o", "c", "k", "e", "d", ")", " ", "{", " ", "C", "u", "s", "t", "T", "a", "b", "l", "e", ".", "B", "l", "o", "c", "k", "e", "d", " ", ":", "=", " ", "f", "a", "l", "s", "e", ";", " ", "}", " ", "B", "a", "s", "e", "V", "a", "l", "i", "d", "a", "t", "o", "r", ":", ":", "l", "o", "g", "(", ")", ";">>

\* "ModuleA/BaseValidator"
QualifiedBase == <<"M", "o", "d", "u", "l", "e", "A", "/", "B", "a", "s", "e", "V", "a", "l", "i", "d", "a", "t", "o", "r">>

\* texts of the Source child of a method element (None: no Source child)
Sources == {None, TxtValidateBody, TxtMyVar, TxtRead}

\* class elements: CustomerValidator with any base reference and at most one
\* method, BaseValidator with or without its method log
ClassElements ==
    [name : {CustomerValidator}, ctx : {ModuleA}, file : {DocA},
     base : {None, BaseValidator, QualifiedBase},
     methods : {<<>>} \cup {<<[name |-> Validate, source |-> b]>> : b \in Sources}]
    \cup
    [name : {BaseValidator}, ctx : {ModuleA}, file : {DocA}, base : {None},
     methods : {<<>>, <<[name |-> Log, source |-> None]>>}]

\* table elements: CustTable in either model, with or without its field Blocked
TableA == [name |-> CustTable, ctx |-> ModuleA, file |-> DocA, fields |-> <<Blocked>>]

TableANoField == [name |-> CustTable, ctx |-> ModuleA, file |-> DocA, fields |-> <<>>]

TableB == [name |-> CustTable, ctx |-> ModuleB, file |-> DocA, fields |-> <<>>]

\* CustTable outside any model or package element
TableNoModel == [name |-> CustTable, ctx |-> None, file |-> DocA, fields |-> <<Blocked>>]

TableLists ==
    {<<>>, <<TableA>>, <<TableANoField>>, <<TableA, TableB>>, <<TableB, TableA>>,
     <<TableA, TableANoField>>, <<TableNoModel>>}

\* the batches of a first ingest: at most two class elements in any order
Batches ==
    [classes : {<<>>} \cup {<<c>> : c \in ClassElements}
                   \cup {<<c, d>> : c \in ClassElements, d \in ClassElements},
     tables : TableLists]

\* the batches of a later ingest into the same store
Updates ==
    { [classes |-> <<[name |-> BaseValidator, ctx |-> ModuleA, file |-> DocA, base |-> None,
                      methods |-> <<[name |-> Log, source |-> None]>>]>>,
       tables |-> <<TableA>>],
      [classes |-> <<[name |-> CustomerValidator, ctx |-> ModuleA, file |-> DocA, base |-> BaseValidator,
                      methods |-> <<[name |-> Validate, source |-> TxtValidateBody]>>]>>,
       tables |-> <<>>],
      [classes |-> <<[name |-> CustomerValidator, ctx |-> ModuleA, file |-> DocA, base |-> None,
                      methods |-> <<[name |-> Validate, source |-> None]>>]>>,
       tables |-> <<>>] }

-----------------------------------------------------------------------------
(* Whole documents *)

\* the document "b.xml" and the digits of its path hash
DocB == <<<<"b", ".", "x", "m", "l">>, <<"1", "2">>>>

\* "Inner"
Inner == <<"I", "n", "n", "e", "r">>

\* " log"
SpaceLog == <<" ", "l", "o", "g">>

\* " Blocked"
SpaceBlocked == <<" ", "B", "l", "o", "c", "k", "e", "d">>

\* "CustTable.Blocked := 1;"
TxtWrite == <<"C", "u", "s", "t", "T", "a", "b", "l", "e", ".", "B", "l", "o", "c", "k", "e", "d", " ", ":", "=", " ", "1", ";">>

\* <Export>, <Model>, <Package>, <AxClass>, <Class>, <AxTable>, <Table> elements
Element(tag, name, children) ==
    [tag |-> tag, name |-> name, base |-> None, methods |-> <<>>, fields |-> <<>>,
     children |-> children]

ExportElement(children) == Element(<<"E", "x", "p", "o", "r", "t">>, None, children)

ModelElement(name, children) == Element(<<"M", "o", "d", "e", "l">>, name, children)

PackageElement(name, children) ==
    Element(<<"P", "a", "c", "k", "a", "g", "e">>, name, children)

AxClassElement(name, base, methods, children) ==
    [tag |-> <<"A", "x", "C", "l", "a", "s", "s">>, name |-> name, base |-> base,
     methods |-> methods, fields |-> <<>>, children |-> children]

ClassElement(name, base, methods, children) ==
    [tag |-> <<"C", "l", "a", "s", "s">>, name |-> name, base |-> base,
     methods |-> methods, fields |-> <<>>, children |-> children]

AxTableElement(name, fields, children) ==
    [tag |-> <<"A", "x", "T", "a", "b", "l", "e">>, name |-> name, base |-> None,
     methods |-> <<>>, fields |-> fields, children |-> children]

TableElement(name, fields, children) ==
    [tag |-> <<"T", "a", "b", "l", "e">>, name |-> name, base |-> None,
     methods |-> <<>>, fields |-> fields, children |-> children]

MethodElement(name, source) == [name |-> name, source |-> source]

\* ModuleA with CustomerValidator, whose validate reads CustTable.Blocked, and CustTable
DocRead ==
    [file |-> DocA, wellformed |-> TRUE,
     root |-> ExportElement(<<ModelElement(ModuleA,
        <<AxClassElement(CustomerValidator, None, <<MethodElement(Validate, TxtRead)>>, <<>>),
          AxTableElement(CustTable, <<Blocked>>, <<>>)>>)>>)]

\* the same document after validate was changed to assign CustTable.Blocked
DocWrite ==
    [file |-> DocA, wellformed |-> TRUE,
     root |-> ExportElement(<<ModelElement(ModuleA,
        <<AxClassElement(CustomerValidator, None, <<MethodElement(Validate, TxtWrite)>>, <<>>),
          AxTableElement(CustTable, <<Blocked>>, <<>>)>>)>>)]

\* containers inside containers: CustomerValidator holds a model element and the class
\* Inner (whose method findall reports for CustomerValidator too); the package ModuleB
\* inside ModuleA holds CustTable, which holds the table Inner; another CustTable lies
\* outside any model element
DocNested ==
    [file |-> DocA, wellformed |-> TRUE,
     root |-> ExportElement(<<AxTableElement(CustTable, <<>>, <<>>), ModelElement(ModuleA,
        <<ClassElement(CustomerValidator, BaseValidator,
                       <<MethodElement(Validate, TxtRead), MethodElement(Log, None)>>,
                       <<ModelElement(ModuleB,
                            <<AxClassElement(Inner, None, <<MethodElement(Log, None)>>, <<>>)>>)>>),
          AxClassElement(BaseValidator, None, <<MethodElement(Log, None)>>, <<>>),
          PackageElement(ModuleB,
            <<TableElement(CustTable, <<Blocked>>,
                           <<AxTableElement(Inner, <<>>, <<>>)>>)>>)>>)>>)]

\* elements without a name: two classes, a method, two tables, a field
DocNameless ==
    [file |-> DocB, wellformed |-> TRUE,
     root |-> ExportElement(<<ModelElement(ModuleA,
        <<AxClassElement(None, None, <<MethodElement(Log, None)>>, <<>>),
          AxClassElement(None, None,
                         <<MethodElement(None, TxtRead), MethodElement(Validate, None)>>, <<>>),
          AxTableElement(None, <<Blocked>>, <<>>),
          AxTableElement(None, <<None>>, <<>>)>>)>>)]

\* a class outside any model element, and one inside a model element without a name
DocNoModel ==
    [file |-> DocB, wellformed |-> TRUE,
     root |-> ExportElement(
        <<AxClassElement(BaseValidator, None, <<MethodElement(Log, None)>>, <<>>),
          ModelElement(None,
            <<AxClassElement(CustomerValidator, BaseValidator, <<>>, <<>>),
              AxTableElement(CustTable, <<Blocked>>, <<>>)>>)>>)]

\* names that differ only in surrounding whitespace
DocWhitespace ==
    [file |-> DocB, wellformed |-> TRUE,
     root |-> ExportElement(<<ModelElement(ModuleA,
        <<AxClassElement(BaseValidator, None,
                         <<MethodElement(Log, None), MethodElement(SpaceLog, None)>>, <<>>),
          AxTableElement(CustTable, <<Blocked, SpaceBlocked>>, <<>>)>>)>>)]

\* a document that is not well-formed markup
DocMalformed == [file |-> DocB, wellformed |-> FALSE, root |-> ExportElement(<<>>)]

\* the paths of a first ingest
DocBatches ==
    { <<DocRead>>, <<DocWrite>>, <<DocNested>>, <<DocNameless>>, <<DocNoModel>>,
      <<DocWhitespace>>, <<DocRead, DocNameless>>, <<DocMalformed>>,
      <<DocMalformed, DocRead>>, <<DocRead, DocMalformed>>, <<>> }

\* the paths of a later ingest into the same store
DocUpdates ==
    { <<DocWrite>>, <<DocRead>>, <<DocNested>>, <<DocMalformed, DocNameless>>,
      <<DocWhitespace, DocMalformed>> }

-----------------------------------------------------------------------------
(* The method analyzer on its own *)

\* ingest has returned nothing (yet)
NoResult == [returned |-> FALSE]

NoIdInput == [model |-> <<"A">>, segments |-> <<>>, model2 |-> <<"A">>, segments2 |-> <<>>]

NoIds == [made |-> FALSE, id |-> <<>>, id2 |-> <<>>, resolved |-> FALSE, base_id |-> <<>>]

NoAnalysis == [done |-> FALSE, called |-> <<>>, accesses |-> <<>>]

\* no concurrent runs
NoConc == [calls |-> <<>>, pc |-> <<>>, overlapped |-> FALSE]

TextInit ==
    /\ txt \in [source : TextBodies, model : {ModuleA, ModuleB}, lookup : TextLookups]
    /\ analysis = NoAnalysis
    /\ batch = [classes |-> <<>>, tables |-> <<>>]
    /\ classes = <<>>
    /\ tables = <<>>
    /\ calls = <<>>
    /\ pc = 1
    /\ phase = "idle"
    /\ nodes = EmptyBag
    /\ rels = EmptyBag
    /\ nodeProps = <<>>
    /\ schema = {}
    /\ ddl = {}
    /\ loader = "none"
    /\ result = NoResult
    /\ syncs = 0
    /\ runNo = 0
    /\ prev = [nodes |-> EmptyBag, rels |-> EmptyBag]
    /\ same = FALSE
    /\ idq = NoIdInput
    /\ idr = NoIds
    /\ conc = NoConc

\* _parse_method line 163 and _populate_field_accesses line 265 on one body
Analyze ==
    /\ ~analysis.done
    /\ analysis' = [done |-> TRUE,
                    called |-> ExtractCalledMethods(txt.source, txt.model),
                    accesses |-> ExtractFieldAccesses(txt.source, txt.model, txt.lookup)]
    /\ UNCHANGED <<txt, syncVars, idVars, concVars>>

TextNext == Analyze

SpecText == TextInit /\ [][TextNext]_vars

-----------------------------------------------------------------------------
(* The identity scheme on its own *)

\* model names: "A", " A"
IdModels == {<<"A">>, <<" ", "A">>}

\* segments: "", " ", "B", " B", "B/C"
IdSegments == {<<>>, <<" ">>, <<"B">>, <<" ", "B">>, <<"B", "/", "C">>}

RECURSIVE SegmentLists(_)
\* the argument lists *segments of at most n segments
SegmentLists(n) ==
    IF n = 0 THEN {<<>>}
    ELSE LET shorter == SegmentLists(n - 1)
         IN  shorter \cup {<<x>> \o l : x \in IdSegments, l \in shorter}

IdInit ==
    /\ idq \in [model : IdModels, segments : SegmentLists(MaxSegs),
                model2 : IdModels, segments2 : SegmentLists(MaxSegs)]
    /\ idr = NoIds
    /\ conc = NoConc
    /\ txt = [source |-> None, model |-> ModuleA, lookup |-> <<>>]
    /\ analysis = NoAnalysis
    /\ batch = [classes |-> <<>>, tables |-> <<>>]
    /\ classes = <<>>
    /\ tables = <<>>
    /\ calls = <<>>
    /\ pc = 1
    /\ phase = "idle"
    /\ nodes = EmptyBag
    /\ rels = EmptyBag
    /\ nodeProps = <<>>
    /\ schema = {}
    /\ ddl = {}
    /\ loader = "none"
    /\ result = NoResult
    /\ syncs = 0
    /\ runNo = 0
    /\ prev = [nodes |-> EmptyBag, rels |-> EmptyBag]
    /\ same = FALSE

\* parse_element_id applied to both argument lists
MakeIds ==
    /\ ~idr.made
    /\ idr' = [idr EXCEPT !.made = TRUE,
                          !.id = parse_element_id(idq.model, idq.segments),
                          !.id2 = parse_element_id(idq.model2, idq.segments2)]
    /\ UNCHANGED <<idq, textVars, syncVars, concVars>>

\* the class reference resolved below: the first segment of the first argument list
ClassReference == idq.segments[1]

\* parse_related_class_id(class_reference, fallback_model), as _upsert_class calls it
\* for a class of model idq.model whose base_class is the reference
ResolveBase ==
    /\ idr.made
    /\ ~idr.resolved
    /\ idq.segments # <<>>
    /\ Truthy(ClassReference)
    /\ idr' = [idr EXCEPT !.resolved = TRUE,
                          !.base_id = parse_related_class_id(ClassReference, idq.model)]
    /\ UNCHANGED <<idq, textVars, syncVars, concVars>>

IdNext == MakeIds \/ ResolveBase

SpecId == IdInit /\ [][IdNext]_vars

-----------------------------------------------------------------------------
(* Ingestion and synchronisation against one store *)

Graph == [nodes |-> nodes, rels |-> rels]

Init ==
    /\ batch \in Batches
    /\ classes = <<>>
    /\ tables = <<>>
    /\ calls = <<>>
    /\ pc = 1
    /\ phase = "parse"
    /\ nodes = EmptyBag
    /\ rels = EmptyBag
    /\ nodeProps = <<>>
    /\ schema = {}
    /\ ddl = {}
    /\ loader = "none"
    /\ result = NoResult
    /\ syncs = 0
    /\ runNo = 1
    /\ prev = [nodes |-> EmptyBag, rels |-> EmptyBag]
    /\ same = FALSE
    /\ txt = [source |-> None, model |-> ModuleA, lookup |-> <<>>]
    /\ analysis = NoAnalysis
    /\ idq = NoIdInput
    /\ idr = NoIds
    /\ conc = NoConc

\* IngestionPipeline.ingest lines 42-48: parse, create the loader, call sync_ir on the values
ParseBatch ==
    /\ phase = "parse"
    /\ LET ir == Parse(batch)
       IN  /\ classes' = ir.classes
           /\ tables' = ir.tables
           /\ calls' = SyncCalls(Values(ir.classes), Values(ir.tables))
    /\ pc' = 1
    /\ loader' = "open"
    /\ syncs' = syncs + 1
    /\ phase' = "constraints"
    /\ UNCHANGED <<batch, nodes, rels, nodeProps, schema, ddl, result, runNo, prev, same, textVars, idVars, concVars>>

\* GraphLoader.ensure_constraints
EnsureConstraints ==
    /\ phase = "constraints"
    /\ schema' = schema \cup Elems(ConstraintStatements)
    /\ ddl' = ddl \cup Elems(ConstraintStatements)
    /\ phase' = "indexes"
    /\ UNCHANGED <<batch, classes, tables, calls, pc, nodes, rels, nodeProps, loader, result, syncs, runNo, prev, same, textVars, idVars, concVars>>

\* GraphLoader.ensure_indexes
EnsureIndexes ==
    /\ phase = "indexes"
    /\ schema' = schema \cup Elems(IndexStatements)
    /\ ddl' = ddl \cup Elems(IndexStatements)
    /\ phase' = "sync"
    /\ UNCHANGED <<batch, classes, tables, calls, pc, nodes, rels, nodeProps, loader, result, syncs, runNo, prev, same, textVars, idVars, concVars>>

\* the next store call of sync_ir is a _merge_node; its ValueError leaves sync_ir and
\* ingest, whose finally clause closes the loader
MergeNodeStep ==
    /\ phase = "sync"
    /\ pc <= Len(calls)
    /\ calls[pc].op = "node"
    /\ IF ~Truthy(calls[pc].id)
       THEN /\ phase' = "failed"
            /\ loader' = "closed"
            /\ UNCHANGED <<nodes, rels, nodeProps, pc>>
       ELSE LET g == MergeNode(Graph, calls[pc].label, calls[pc].id)
                n == <<calls[pc].label, calls[pc].id>>
            IN  /\ nodes' = g.nodes
                /\ rels' = g.rels
                /\ nodeProps' = (n :> MergedProperties(nodeProps, n[1], n[2], calls[pc].props))
                                    @@ nodeProps
                /\ pc' = pc + 1
                /\ phase' = phase
                /\ loader' = loader
    /\ UNCHANGED <<batch, classes, tables, calls, schema, ddl, result, syncs, runNo, prev, same, textVars, idVars, concVars>>

\* the next store call of sync_ir is a _merge_relationship
MergeRelationshipStep ==
    /\ phase = "sync"
    /\ pc <= Len(calls)
    /\ calls[pc].op = "rel"
    /\ LET g == MergeRelationship(Graph, calls[pc].label, calls[pc].id, calls[pc].rel,
                                  calls[pc].end_label, calls[pc].end_id)
       IN  /\ nodes' = g.nodes
           /\ rels' = g.rels
    /\ pc' = pc + 1
    /\ UNCHANGED <<batch, classes, tables, calls, phase, nodeProps, schema, ddl, loader, result, syncs, runNo, prev, same, textVars, idVars, concVars>>

\* sync_ir returns without closing the loader
Finish_LeavesOpen ==
    /\ phase = "sync"
    /\ pc > Len(calls)
    /\ phase' = "closed"
    /\ UNCHANGED <<batch, classes, tables, calls, pc, nodes, rels, nodeProps, schema, ddl, loader, result, syncs, runNo, prev, same, textVars, idVars, concVars>>

\* sync_ir returns; the finally clause of ingest closes the loader
Finish ==
    /\ phase = "sync"
    /\ pc > Len(calls)
    /\ loader' = "closed"
    /\ phase' = "closed"
    /\ UNCHANGED <<batch, classes, tables, calls, pc, nodes, rels, nodeProps, schema, ddl, result, syncs, runNo, prev, same, textVars, idVars, concVars>>

RECURSIVE SumLen(_)
\* sum(len(x) for x in seqs)
SumLen(seqs) == IF seqs = <<>> THEN 0 ELSE Len(Head(seqs)) + SumLen(Tail(seqs))

\* an IngestionResult whose methods_count is the number of classes
IngestionResult_CountsClasses ==
    [returned |-> TRUE,
     classes_processed |-> Len(classes),
     methods_processed |-> Len(classes),
     tables_processed |-> Len(tables),
     fields_processed |-> SumLen([i \in 1..Len(tables) |-> tables[i].v.fields])]

\* the IngestionResult of ingest lines 43-44, 52-57
IngestionResult ==
    [returned |-> TRUE,
     classes_processed |-> Len(classes),
     methods_processed |-> SumLen([i \in 1..Len(classes) |-> classes[i].v.methods]),
     tables_processed |-> Len(tables),
     fields_processed |-> SumLen([i \in 1..Len(tables) |-> tables[i].v.fields])]

\* ingest returns its result
ReturnResult ==
    /\ phase = "closed"
    /\ result' = IngestionResult
    /\ phase' = "done"
    /\ UNCHANGED <<batch, classes, tables, calls, pc, nodes, rels, nodeProps, schema, ddl, loader, syncs, runNo, prev, same, textVars, idVars, concVars>>

\* ingest is called again, on the same documents
Resync ==
    /\ phase = "done"
    /\ runNo < MaxRuns
    /\ runNo' = runNo + 1
    /\ prev' = Graph
    /\ same' = TRUE
    /\ pc' = 1
    /\ ddl' = {}
    /\ loader' = "none"
    /\ result' = NoResult
    /\ syncs' = 0
    /\ phase' = "parse"
    /\ UNCHANGED <<batch, classes, tables, calls, nodes, rels, nodeProps, schema, textVars, idVars, concVars>>

\* ingest is called again, on another batch
Reingest ==
    /\ phase = "done"
    /\ runNo < MaxRuns
    /\ \E b \in Updates : batch' = b
    /\ runNo' = runNo + 1
    /\ prev' = Graph
    /\ same' = FALSE
    /\ pc' = 1
    /\ ddl' = {}
    /\ loader' = "none"
    /\ result' = NoResult
    /\ syncs' = 0
    /\ phase' = "parse"
    /\ UNCHANGED <<classes, tables, calls, nodes, rels, nodeProps, schema, textVars, idVars, concVars>>

Next ==
    \/ ParseBatch
    \/ EnsureConstraints
    \/ EnsureIndexes
    \/ MergeNodeStep
    \/ MergeRelationshipStep
    \/ Finish
    \/ ReturnResult
    \/ Resync
    \/ Reingest

Spec == Init /\ [][Next]_vars

-----------------------------------------------------------------------------
(* Ingestion of whole documents: batch is the sequence of documents given  *)
(* to ingest                                                               *)

DocsInit ==
    /\ batch \in DocBatches
    /\ classes = <<>>
    /\ tables = <<>>
    /\ calls = <<>>
    /\ pc = 1
    /\ phase = "parse"
    /\ nodes = EmptyBag
    /\ rels = EmptyBag
    /\ nodeProps = <<>>
    /\ schema = {}
    /\ ddl = {}
    /\ loader = "none"
    /\ result = NoResult
    /\ syncs = 0
    /\ runNo = 1
    /\ prev = [nodes |-> EmptyBag, rels |-> EmptyBag]
    /\ same = FALSE
    /\ txt = [source |-> None, model |-> ModuleA, lookup |-> <<>>]
    /\ analysis = NoAnalysis
    /\ idq = NoIdInput
    /\ idr = NoIds
    /\ conc = NoConc

\* IngestionPipeline.ingest lines 42-48 when parse returns: create the loader, call
\* sync_ir on the values
ParseDocumentsStep ==
    /\ phase = "parse"
    /\ LET ir == ParseDocuments(batch)
       IN  /\ ~ir.raised
           /\ classes' = ir.classes
           /\ tables' = ir.tables
           /\ calls' = SyncCalls(Values(ir.classes), Values(ir.tables))
    /\ pc' = 1
    /\ loader' = "open"
    /\ syncs' = syncs + 1
    /\ phase' = "constraints"
    /\ UNCHANGED <<batch, nodes, rels, nodeProps, schema, ddl, result, runNo, prev, same, textVars, idVars, concVars>>

\* IngestionPipeline.ingest line 42 when parse raises: ingest is left before the loader
\* is created
ParseRaises ==
    /\ phase = "parse"
    /\ ParseDocuments(batch).raised
    /\ phase' = "raised"
    /\ UNCHANGED <<batch, classes, tables, calls, pc, nodes, rels, nodeProps, schema, ddl, loader, result, syncs, runNo, prev, same, textVars, idVars, concVars>>

\* ingest is called again, on other documents
IngestDocuments ==
    /\ phase \in {"done", "raised"}
    /\ runNo < MaxRuns
    /\ \E b \in DocUpdates : batch' = b
    /\ runNo' = runNo + 1
    /\ prev' = Graph
    /\ same' = FALSE
    /\ pc' = 1
    /\ ddl' = {}
    /\ loader' = "none"
    /\ result' = NoResult
    /\ syncs' = 0
    /\ phase' = "parse"
    /\ UNCHANGED <<classes, tables, calls, nodes, rels, nodeProps, schema, textVars, idVars, concVars>>

DocsNext ==
    \/ ParseDocumentsStep
    \/ ParseRaises
    \/ EnsureConstraints
    \/ EnsureIndexes
    \/ MergeNodeStep
    \/ MergeRelationshipStep
    \/ Finish
    \/ ReturnResult
    \/ IngestDocuments

SpecDocs == DocsInit /\ [][DocsNext]_vars

-----------------------------------------------------------------------------
(* Ingestion against a store whose calls may fail *)

\* the batches ingested into the failing store
FailBatches ==
    { [classes |-> <<[name |-> CustomerValidator, ctx |-> ModuleA, file |-> DocA, base |-> BaseValidator,
                      methods |-> <<[name |-> Validate, source |-> TxtValidateBody]>>],
                     [name |-> BaseValidator, ctx |-> ModuleA, file |-> DocA, base |-> None,
                      methods |-> <<[name |-> Log, source |-> None]>>]>>,
       tables |-> <<TableA>>],
      [classes |-> <<[name |-> BaseValidator, ctx |-> ModuleA, file |-> DocA, base |-> None, methods |-> <<>>]>>,
       tables |-> <<>>],
      [classes |-> <<>>, tables |-> <<TableNoModel>>] }

FailInit == Init /\ batch \in FailBatches

\* a failing store call that also undoes the writes of the running sync_ir
StoreCallFails_RollsBack ==
    /\ phase = "sync"
    /\ pc <= Len(calls)
    /\ nodes' = prev.nodes
    /\ rels' = prev.rels
    /\ phase' = "error"
    /\ UNCHANGED <<batch, classes, tables, calls, pc, nodeProps, schema, ddl, loader, result, syncs, runNo, prev, same, textVars, idVars, concVars>>

\* a session.run of ensure_constraints, ensure_indexes or sync_ir raises: the statements
\* run before it stay applied (each session.run commits on its own), the failing one
\* applies nothing, and the exception leaves sync_ir
StoreCallFails ==
    /\ \/ /\ phase = "constraints"
          /\ \E k \in 1..Len(ConstraintStatements) :
                /\ schema' = schema \cup Elems(SubSeq(ConstraintStatements, 1, k - 1))
                /\ ddl' = ddl \cup Elems(SubSeq(ConstraintStatements, 1, k - 1))
       \/ /\ phase = "indexes"
          /\ \E k \in 1..Len(IndexStatements) :
                /\ schema' = schema \cup Elems(SubSeq(IndexStatements, 1, k - 1))
                /\ ddl' = ddl \cup Elems(SubSeq(IndexStatements, 1, k - 1))
       \/ /\ phase = "sync"
          /\ pc <= Len(calls)
          /\ UNCHANGED <<schema, ddl>>
    /\ phase' = "error"
    /\ UNCHANGED <<batch, classes, tables, calls, pc, nodes, rels, nodeProps, loader, result, syncs, runNo, prev, same, textVars, idVars, concVars>>

\* ingest lines 49-50: the finally clause closes the loader and the exception goes on
\* to the caller of ingest
CloseOnError ==
    /\ phase = "error"
    /\ loader' = "closed"
    /\ phase' = "raised"
    /\ UNCHANGED <<batch, classes, tables, calls, pc, nodes, rels, nodeProps, schema, ddl, result, syncs, runNo, prev, same, textVars, idVars, concVars>>

FailNext ==
    \/ Next
    \/ StoreCallFails
    \/ CloseOnError

SpecFail == FailInit /\ [][FailNext]_vars

-----------------------------------------------------------------------------
(* Vocabulary of the properties *)

\* the ClassIR values handed to sync_ir, in order
ClassList == Values(classes)

\* the TableIR values handed to sync_ir, in order
TableList == Values(tables)

\* the MethodIR values of the batch
MethodSet == UNION {{c.methods[i].v : i \in 1..Len(c.methods)} : c \in {ClassList[k] : k \in 1..Len(ClassList)}}

TableSet == {TableList[k] : k \in 1..Len(TableList)}

FieldNames(table_ir) == {table_ir.fields[i].v.name : i \in 1..Len(table_ir.fields)}

\* text t occurs in s at position p
OccursAt(s, t, p) == p >= 1 /\ p + Len(t) - 1 <= Len(s) /\ SubSeq(s, p, p + Len(t) - 1) = t

\* position p + Len(t) of s starts optional whitespace and then ":="
AssignedAt(s, t, p) ==
    LET q == SpaceEnd(s, p + Len(t))
    IN  q + 1 <= Len(s) /\ s[q] = ":" /\ s[q + 1] = "="

Contains(s, t) == Truthy(s) /\ \E p \in 1..Len(s) : OccursAt(s, t, p)

\* relationships of the store with this start node and type
RelsFrom(label, id, rel_type) ==
    {r \in DOMAIN rels : r[1] = label /\ r[2] = id /\ r[3] = rel_type}

FirstRunDone == phase = "done" /\ runNo = 1

\* the store calls the running sync_ir has issued so far
Issued == IF phase \in {"sync", "closed", "done"} THEN SubSeq(calls, 1, pc - 1) ELSE <<>>

-----------------------------------------------------------------------------
(* C1 - forward-reference safety.  A single batch synced into an empty     *)
(* store: if class A, whose base class is B of the same model, precedes B  *)
(* in the batch order, the store holds an EXTENDS relationship from Class  *)
(* node A to Class node B after the run.                                   *)
C1_ForwardReferenceSafety ==
    FirstRunDone =>
        \A i, j \in 1..Len(ClassList) :
            LET A == ClassList[i]
                B == ClassList[j]
            IN  (/\ i < j
                 /\ A.model = B.model
                 /\ Truthy(A.base_class)
                 /\ parse_related_class_id(A.base_class, A.model) = element_id(B))
                => BagIn(<<NODE_CLASS, element_id(A), REL_EXTENDS, NODE_CLASS, element_id(B)>>, rels)

(* C2 - two-phase ordering.  In every run of sync_ir no relationship       *)
(* upsert is issued before the last node upsert of that run: among the     *)
(* calls issued so far, no _merge_node follows a _merge_relationship.      *)
C2_TwoPhaseOrdering ==
    \A i, j \in 1..Len(Issued) :
        (i < j /\ Issued[i].op = "rel") => Issued[j].op # "node"

(* C3 - idempotence.  For a batch synced into an empty store, the nodes    *)
(* and relationships after the second sync_ir run on that batch equal      *)
(* those after the first run.                                              *)
C3_Idempotence ==
    (phase = "done" /\ runNo = 2 /\ same) => Graph = prev

(* C4 - no duplication.  After any sequence of sequential sync_ir runs the *)
(* store holds at most one node per (label, id) and at most one            *)
(* relationship per (start node, type, end node).                          *)
C4_NoDuplication ==
    /\ \A n \in DOMAIN nodes : nodes[n] = 1
    /\ \A r \in DOMAIN rels : rels[r] = 1

\* a second run has re-issued every upsert of the first against a filled store
C4_Witness ==
    /\ phase = "done"
    /\ runNo >= 2
    /\ same
    /\ Len(calls) > 0
    /\ DOMAIN rels # {}
    /\ \A i \in 1..Len(calls) : calls[i].op = "node" => BagIn(<<calls[i].label, calls[i].id>>, prev.nodes)

\* the next store call is a relationship upsert naming a node the store does not hold
DanglingCall ==
    /\ phase = "sync"
    /\ pc <= Len(calls)
    /\ calls[pc].op = "rel"
    /\ \/ ~BagIn(<<calls[pc].label, calls[pc].id>>, nodes)
       \/ ~BagIn(<<calls[pc].end_label, calls[pc].end_id>>, nodes)

\* classes of the batch whose base class is in neither the batch nor the store
DanglingClasses ==
    {c \in Elems(ClassList) :
        /\ Truthy(c.base_class)
        /\ ~BagIn(<<NODE_CLASS, parse_related_class_id(c.base_class, c.model)>>, nodes)}

(* C5 - dangling endpoint.  A relationship upsert that names a start or    *)
(* end node missing from the store leaves nodes and relationships          *)
(* unchanged and the run carries on with its next call; no run fails; and  *)
(* a class whose base class is in neither the batch nor the store ends     *)
(* the run with no EXTENDS relationship.                                   *)
C5_DanglingEndpoint ==
    /\ [][DanglingCall => (nodes' = nodes /\ rels' = rels /\ phase' = "sync" /\ pc' = pc + 1)]_vars
    /\ [](phase # "failed")
    /\ [](phase = "done" =>
            \A c \in DanglingClasses : RelsFrom(NODE_CLASS, element_id(c), REL_EXTENDS) = {})

\* a run has ended for a class whose EXTENDS upsert was issued and found no base node
C5_Witness ==
    /\ phase = "done"
    /\ \E c \in DanglingClasses :
          /\ RelsFrom(NODE_CLASS, element_id(c), REL_EXTENDS) = {}
          /\ \E i \in 1..Len(calls) : calls[i].op = "rel" /\ calls[i].rel = REL_EXTENDS
                                       /\ calls[i].id = element_id(c)

\* the body holds a bare occurrence of CustTable.Blocked and an assigned one
BareAndAssigned(body) ==
    /\ Truthy(body)
    /\ \E p \in 1..Len(body) : OccursAt(body, TxtRead, p) /\ ~AssignedAt(body, TxtRead, p)
    /\ \E p \in 1..Len(body) : OccursAt(body, TxtRead, p) /\ AssignedAt(body, TxtRead, p)

(* C6 - write-dominance.  A batch with table CustTable holding field       *)
(* Blocked and a method of the same model whose body holds both a bare     *)
(* CustTable.Blocked and CustTable.Blocked := : after parse and sync into  *)
(* an empty store the method node has exactly one WRITES_FIELD             *)
(* relationship to {model}/CustTable/Blocked and no READS_FIELD            *)
(* relationship to it.                                                     *)
C6_WriteDominance ==
    FirstRunDone =>
        \A m \in MethodSet :
            (/\ BareAndAssigned(m.body)
             /\ \E t \in TableSet : t.name = CustTable /\ t.model = m.model /\ Blocked \in FieldNames(t))
            => LET fid == parse_element_id(m.model, <<CustTable, Blocked>>)
                   mid == method_element_id(m)
               IN  /\ CopiesIn(<<NODE_METHOD, mid, REL_WRITES_FIELD, NODE_FIELD, fid>>, rels) = 1
                   /\ CopiesIn(<<NODE_METHOD, mid, REL_READS_FIELD, NODE_FIELD, fid>>, rels) = 0

(* C7 - one record per pair.  The list returned by _extract_field_accesses *)
(* holds at most one FieldAccess record per distinct (table, field) pair.  *)
C7_OneRecordPerPair ==
    analysis.done =>
        \A i, j \in 1..Len(analysis.accesses) :
            (/\ analysis.accesses[i].table_name = analysis.accesses[j].table_name
             /\ analysis.accesses[i].field_name = analysis.accesses[j].field_name)
            => i = j

\* the relationship a FieldAccess record of method m is turned into
AccessRel(m, a) ==
    <<NODE_METHOD, method_element_id(m),
      IF a.access_type = "read" THEN REL_READS_FIELD ELSE REL_WRITES_FIELD,
      NODE_FIELD, target_field_id(a)>>

(* C8 - field-access suppression.  Every FieldAccess record of a method    *)
(* comes from an X.Y match of its body where X is the name of a table      *)
(* parsed in the batch and Y the name of a field declared on a table of    *)
(* that name; and every READS_FIELD/WRITES_FIELD relationship a run adds   *)
(* to the store comes from such a record.                                  *)
C8_FieldAccessSuppression ==
    /\ \A m \in MethodSet :
          \A a \in Elems(m.field_accesses) :
              /\ <<a.table_name, a.field_name>> \in Elems(FieldMatches(m.body))
              /\ \E t \in TableSet : t.name = a.table_name /\ a.field_name \in FieldNames(t)
    /\ \A r \in DOMAIN rels :
          (r[3] \in {REL_READS_FIELD, REL_WRITES_FIELD} /\ ~BagIn(r, prev.rels))
          => \E m \in MethodSet : \E a \in Elems(m.field_accesses) : r = AccessRel(m, a)

\* a run has ended for a method whose body holds myVar.SomeProp: no record, no relationship
C8_Witness ==
    /\ phase = "done"
    /\ \E m \in MethodSet :
          /\ <<<<"m", "y", "V", "a", "r">>, <<"S", "o", "m", "e", "P", "r", "o", "p">>>>
                \in Elems(FieldMatches(m.body))
          /\ m.field_accesses = <<>>
          /\ RelsFrom(NODE_METHOD, method_element_id(m), REL_READS_FIELD) = {}
          /\ RelsFrom(NODE_METHOD, method_element_id(m), REL_WRITES_FIELD) = {}
    /\ \E t \in TableSet : Blocked \in FieldNames(t)

\* the CALLS target of BaseValidator::log in a method of model m.model
LogTarget(m) == parse_element_id(m.model, <<BaseValidator, Log>>)

MatchIds ==
    IF Truthy(txt.source)
    THEN [i \in 1..Len(CallMatches(txt.source)) |->
            parse_element_id(txt.model, <<CallMatches(txt.source)[i][1], CallMatches(txt.source)[i][2]>>)]
    ELSE <<>>

\* index of the first occurrence of x in seq
FirstIndex(seq, x) == CHOOSE i \in 1..Len(seq) : seq[i] = x /\ \A k \in 1..(i - 1) : seq[k] # x

(* C10 - called_methods.  It holds no repeated id, holds exactly the ids   *)
(* make_id(model, Class, Method) of the Class::Method matches of the body, *)
(* in order of first occurrence; an absent or empty body gives the empty   *)
(* list.                                                                   *)
C10_CalledMethods ==
    analysis.done =>
        /\ \A i, j \in 1..Len(analysis.called) : analysis.called[i] = analysis.called[j] => i = j
        /\ Elems(analysis.called) = Elems(MatchIds)
        /\ \A i, j \in 1..Len(analysis.called) :
              i < j => FirstIndex(MatchIds, analysis.called[i]) < FirstIndex(MatchIds, analysis.called[j])
        /\ ~Truthy(txt.source) => analysis.called = <<>>

\* a body with a repeated call between two different ones has been analyzed
C10_Witness ==
    /\ analysis.done
    /\ Len(analysis.called) = 2
    /\ Len(MatchIds) = 3
    /\ MatchIds[1] = MatchIds[3]

-----------------------------------------------------------------------------
(* C11 - identifier injectivity.  parse_element_id returns the same        *)
(* identifier for identical (model, segment list) inputs and different     *)
(* identifiers for any two different (model, segment list) inputs.         *)
C11_Injectivity ==
    idr.made =>
        ((idq.model = idq.model2 /\ idq.segments = idq.segments2) <=> idr.id = idr.id2)

\* the segments of a list that are not empty once trimmed, trimmed
RECURSIVE TrimmedNonEmpty(_)
TrimmedNonEmpty(segments) ==
    IF segments = <<>> THEN <<>>
    ELSE IF Strip(Head(segments)) # <<>>
         THEN <<Strip(Head(segments))>> \o TrimmedNonEmpty(Tail(segments))
         ELSE TrimmedNonEmpty(Tail(segments))

(* C12 - trimmed, no empty segment.  The identifier is the trimmed model   *)
(* followed by each segment trimmed, a segment that is empty or empty      *)
(* after trimming contributing nothing: it never holds "//" and never      *)
(* ends in "/".                                                            *)
C12_NoEmptySegment ==
    idr.made =>
        /\ idr.id = Join(<<Strip(idq.model)>> \o TrimmedNonEmpty(idq.segments))
        /\ \A p \in 1..(Len(idr.id) - 1) : ~(idr.id[p] = "/" /\ idr.id[p + 1] = "/")
        /\ idr.id # <<>> => idr.id[Len(idr.id)] # "/"

(* C20 - base-class resolution agrees with the identity scheme.  For a     *)
(* class of model M with bare base-class reference B (no "/") the id       *)
(* computed by parse_related_class_id equals element_id() of a class named *)
(* B in model M, surrounding whitespace included; a reference holding "/"  *)
(* is used unchanged.                                                      *)
C20_BaseResolution ==
    idr.resolved =>
        IF HasSlash(ClassReference)
        THEN idr.base_id = ClassReference
        ELSE idr.base_id = element_id([model |-> idq.model, name |-> ClassReference])

\* the text table.field of a FieldAccess record
AccessText(a) == a.table_name \o <<".">> \o a.field_name

\* s holds the text t at p as a whole identifier pair (no word character before it),
\* followed by optional whitespace and ":="
ExactWriteAt(s, t, p) ==
    /\ OccursAt(s, t, p)
    /\ (p = 1 \/ ~IsWord(s[p - 1]))
    /\ AssignedAt(s, t, p)

(* C19 - write classification.  An accepted (table, field) pair is         *)
(* classified WRITE if and only if the body holds an occurrence of exactly *)
(* the text table.field, in the same letter case and not as the tail of a  *)
(* longer identifier, followed by optional whitespace and ":="; otherwise  *)
(* it is classified READ.                                                  *)
C19_WriteClassification ==
    analysis.done =>
        \A a \in Elems(analysis.accesses) :
            /\ a.access_type \in {"read", "write"}
            /\ a.access_type = "write"
                  <=> \E p \in 1..Len(txt.source) : ExactWriteAt(txt.source, AccessText(a), p)

\* the canonical id of the class or table built from a walked element
ElementId(e) == parse_element_id(Or(e.ctx, UNKNOWN), <<e.name>>)

\* index of the last element with this id
LastIndex(elements, id) ==
    CHOOSE j \in 1..Len(elements) :
        /\ ElementId(elements[j]) = id
        /\ \A k \in (j + 1)..Len(elements) : ElementId(elements[k]) # id

\* a ClassIR as it was before its field accesses were populated
NoAccesses(class_ir) ==
    [class_ir EXCEPT !.methods =
        [i \in 1..Len(class_ir.methods) |->
            [k |-> class_ir.methods[i].k,
             v |-> [class_ir.methods[i].v EXCEPT !.field_accesses = <<>>]]]]

\* entries of dict d under key k
Entries(d, k) == {i \in 1..Len(d) : d[i].k = k}

UpsertOfExisting ==
    /\ phase = "sync"
    /\ pc <= Len(calls)
    /\ calls[pc].op = "node"
    /\ <<calls[pc].label, calls[pc].id>> \in DOMAIN nodeProps

(* C14 - node upsert property semantics.  Upserting a node that exists     *)
(* sets every property that is present (non-null) in the new payload to    *)
(* the payload's value, leaves every property that is absent or null in    *)
(* the payload at its stored value, and removes no property.               *)
C14_UpsertProperties ==
    [][UpsertOfExisting =>
        LET n == <<calls[pc].label, calls[pc].id>>
            payload == calls[pc].payload
            old == nodeProps[n]
            new == nodeProps'[n]
        IN  /\ \A k \in DOMAIN payload :
                  payload[k] # None => (k \in DOMAIN new /\ new[k] = payload[k])
            /\ \A k \in DOMAIN old :
                  (k \notin DOMAIN payload \/ payload[k] = None)
                  => (k \in DOMAIN new /\ new[k] = old[k])
            /\ DOMAIN old \subseteq DOMAIN new]_vars

\* a later ingest has upserted a class without base class and a method without body
\* over nodes that hold baseClass and body, and both properties are still there
C14_Witness ==
    /\ phase = "done"
    /\ runNo = 2
    /\ \E c \in Elems(ClassList) :
          /\ c.base_class = None
          /\ "baseClass" \in DOMAIN nodeProps[<<NODE_CLASS, element_id(c)>>]
          /\ \E i \in 1..Len(c.methods) :
                /\ c.methods[i].v.body = None
                /\ "body" \in DOMAIN nodeProps[<<NODE_METHOD, method_element_id(c.methods[i].v)>>]

\* the uniqueness constraints on id of the six labels
SixConstraints ==
    {<<"constraint", label, "id">> : label \in {"Class", "Method", "Table", "Field", "Model", "Package"}}

\* the constraint statements of a schema
ConstraintsOf(sch) == {x \in sch : x[1] = "constraint"}

(* C15 - schema before data.  In every run the uniqueness constraint on id *)
(* of each of Class, Method, Table, Field, Model, Package has been ensured *)
(* by that run before its first node upsert is issued, and ensuring the    *)
(* constraints when they exist changes nothing.                            *)
C15_SchemaBeforeData ==
    /\ []((\E i \in 1..Len(Issued) : Issued[i].op = "node")
            => (SixConstraints \subseteq ddl /\ SixConstraints \subseteq schema))
    /\ []((phase = "sync" /\ pc <= Len(calls) /\ calls[pc].op = "node")
            => (SixConstraints \subseteq ddl /\ SixConstraints \subseteq schema))
    /\ [][(phase = "constraints" /\ SixConstraints \subseteq schema)
            => schema' = schema]_vars

\* a second run has ensured the constraints again and issued a node upsert
C15_Witness ==
    /\ runNo = 2
    /\ phase = "sync"
    /\ pc > 1
    /\ Issued[1].op = "node"
    /\ SixConstraints \subseteq ddl

(* C16 - storage failure.  When a store call fails during sync_ir, the     *)
(* call applies nothing and every write applied before it stays in the     *)
(* store; the loader is closed and the error reaches the caller of ingest  *)
(* with no IngestionResult returned; no store call is issued after the     *)
(* failure.                                                                *)
C16_StorageFailure ==
    /\ [][(phase # "error" /\ phase' = "error")
            => (/\ nodes' = nodes /\ rels' = rels /\ nodeProps' = nodeProps
                /\ schema \subseteq schema')]_vars
    /\ [][phase = "error"
            => (/\ phase' = "raised" /\ loader' = "closed" /\ result' = NoResult
                /\ nodes' = nodes /\ rels' = rels /\ nodeProps' = nodeProps
                /\ schema' = schema /\ pc' = pc)]_vars
    /\ [](phase = "raised" => (loader = "closed" /\ result = NoResult))
    /\ [][phase = "raised" => FALSE]_vars

\* a store call failed in the middle of a sync_ir: ingest has raised, and the writes
\* of the earlier calls are in the store
C16_Witness ==
    /\ phase = "raised"
    /\ runNo = 1
    /\ pc > 1
    /\ pc <= Len(calls)
    /\ \A i \in 1..(pc - 1) : calls[i].op = "node" => BagIn(<<calls[i].label, calls[i].id>>, nodes)
    /\ DOMAIN rels # {}
    /\ loader = "closed"

(* C17 - orchestration order.  In every successful ingest call the         *)
(* documents are parsed and the field accesses populated before the first  *)
(* store call, sync_ir is invoked exactly once, and the loader is closed   *)
(* before the result record is returned.                                   *)
C17_OrchestrationOrder ==
    /\ [](phase = "parse" => (ddl = {} /\ syncs = 0 /\ loader = "none"))
    /\ [](phase = "constraints"
            => (/\ [classes |-> classes, tables |-> tables] = Parse(batch)
                /\ ddl = {} /\ pc = 1))
    /\ [](phase \in {"constraints", "indexes", "sync"}
            => (syncs = 1 /\ loader = "open" /\ result = NoResult))
    /\ [][(phase = "constraints" \/ phase = "indexes" \/ phase = "sync" \/ phase = "closed")
            => (classes' = classes /\ tables' = tables /\ syncs' = syncs)]_vars
    /\ [][result' # result /\ result'.returned => (loader = "closed" /\ syncs = 1)]_vars
    /\ [](phase = "done" => (syncs = 1 /\ loader = "closed" /\ result = IngestionResult))

\* a second ingest on the same store has returned its counts
C17_Witness ==
    /\ phase = "done"
    /\ runNo = 2
    /\ result.returned
    /\ result.classes_processed = 1
    /\ result.methods_processed = 1
    /\ loader = "closed"

\* the class and table entities of the batch, each with the label of its node
Entities ==
    {[label |-> NODE_CLASS, ir |-> c] : c \in Elems(ClassList)}
    \cup {[label |-> NODE_TABLE, ir |-> t] : t \in TableSet}

(* C18 - model and package membership.  After a successful sync_ir of a    *)
(* batch into an empty store every Class and Table node of the batch has   *)
(* exactly one BELONGS_TO_MODEL relationship, to the Model node whose id   *)
(* is the entity's model name, and has a BELONGS_TO_PACKAGE relationship   *)
(* if and only if the entity has a non-empty package, then to the Package  *)
(* node whose id is that package name.                                     *)
C18_ModelAndPackage ==
    FirstRunDone =>
        \A e \in Entities :
            LET id == element_id(e.ir)
                toModel == <<e.label, id, REL_BELONGS_TO_MODEL, NODE_MODEL, e.ir.model>>
                toPackage == <<e.label, id, REL_BELONGS_TO_PACKAGE, NODE_PACKAGE, e.ir.package>>
            IN  /\ BagIn(<<e.label, id>>, nodes)
                /\ RelsFrom(e.label, id, REL_BELONGS_TO_MODEL) = {toModel}
                /\ CopiesIn(toModel, rels) = 1
                /\ BagIn(<<NODE_MODEL, e.ir.model>>, nodes)
                /\ IF Truthy(e.ir.package)
                   THEN /\ RelsFrom(e.label, id, REL_BELONGS_TO_PACKAGE) = {toPackage}
                        /\ CopiesIn(toPackage, rels) = 1
                        /\ BagIn(<<NODE_PACKAGE, e.ir.package>>, nodes)
                   ELSE RelsFrom(e.label, id, REL_BELONGS_TO_PACKAGE) = {}

\* a run has ended for a batch with a class inside a model element and a table
\* outside any
C18_Witness ==
    /\ FirstRunDone
    /\ \E e \in Entities :
          /\ e.label = NODE_CLASS
          /\ Truthy(e.ir.package)
          /\ RelsFrom(e.label, element_id(e.ir), REL_BELONGS_TO_PACKAGE) # {}
    /\ \E e \in Entities :
          /\ e.label = NODE_TABLE
          /\ e.ir.package = None
          /\ e.ir.model = UNKNOWN
          /\ RelsFrom(e.label, element_id(e.ir), REL_BELONGS_TO_MODEL) # {}
          /\ RelsFrom(e.label, element_id(e.ir), REL_BELONGS_TO_PACKAGE) = {}

-----------------------------------------------------------------------------
(* Two sync_ir runs of independent processes against one store.  Every     *)
(* session.run is an auto-commit transaction, so the store calls of the    *)
(* two runs interleave call by call; conc.pc[r] is 0 before the            *)
(* ensure_schema of run r, then the index of its next store call.          *)

\* the batches the two processes have parsed
ConcBatches ==
    { [classes |-> <<[name |-> CustomerValidator, ctx |-> ModuleA, file |-> DocA,
                      base |-> BaseValidator,
                      methods |-> <<[name |-> Validate, source |-> TxtValidateBody]>>]>>,
       tables |-> <<>>],
      [classes |-> <<[name |-> BaseValidator, ctx |-> ModuleA, file |-> DocA, base |-> None,
                      methods |-> <<[name |-> Log, source |-> None]>>]>>,
       tables |-> <<TableA>>],
      [classes |-> <<[name |-> CustomerValidator, ctx |-> ModuleA, file |-> DocA,
                      base |-> BaseValidator,
                      methods |-> <<[name |-> Validate, source |-> TxtValidateBody]>>],
                     [name |-> BaseValidator, ctx |-> ModuleA, file |-> DocA, base |-> None,
                      methods |-> <<[name |-> Log, source |-> None]>>]>>,
       tables |-> <<>>] }

\* the store calls of sync_ir for a parsed batch
CallsOf(b) == SyncCalls(Values(Parse(b).classes), Values(Parse(b).tables))

ConcInit ==
    /\ batch = [classes |-> <<>>, tables |-> <<>>]
    /\ classes = <<>>
    /\ tables = <<>>
    /\ calls = <<>>
    /\ pc = 1
    /\ phase = "concurrent"
    /\ nodes = EmptyBag
    /\ rels = EmptyBag
    /\ nodeProps = <<>>
    /\ schema = {}
    /\ ddl = {}
    /\ loader = "open"
    /\ result = NoResult
    /\ syncs = 0
    /\ runNo = 1
    /\ prev = [nodes |-> EmptyBag, rels |-> EmptyBag]
    /\ same = FALSE
    /\ txt = [source |-> None, model |-> ModuleA, lookup |-> <<>>]
    /\ analysis = NoAnalysis
    /\ idq = NoIdInput
    /\ idr = NoIds
    /\ \E a \in ConcBatches, b \in ConcBatches :
          conc = [calls |-> <<CallsOf(a), CallsOf(b)>>, pc |-> <<0, 0>>, overlapped |-> FALSE]

\* the other run has started and not finished
OtherRunning(r) == conc.pc[3 - r] > 0 /\ conc.pc[3 - r] <= Len(conc.calls[3 - r])

\* run r has taken a step
Stepped(r) ==
    conc' = [conc EXCEPT !.pc[r] = @ + 1, !.overlapped = @ \/ OtherRunning(r)]

\* run r: GraphLoader.ensure_schema, whose statements only add what is not there
ConcEnsureSchema ==
    \E r \in 1..2 :
        /\ conc.pc[r] = 0
        /\ schema' = schema \cup Elems(ConstraintStatements) \cup Elems(IndexStatements)
        /\ Stepped(r)
        /\ UNCHANGED <<batch, classes, tables, calls, pc, phase, nodes, rels, nodeProps, ddl, loader, result, syncs, runNo, prev, same, textVars, idVars>>

\* run r: its next store call, a _merge_node
ConcMergeNode ==
    \E r \in 1..2 :
        /\ conc.pc[r] >= 1
        /\ conc.pc[r] <= Len(conc.calls[r])
        /\ LET call == conc.calls[r][conc.pc[r]]
               g == MergeNode(Graph, call.label, call.id)
               n == <<call.label, call.id>>
           IN  /\ call.op = "node"
               /\ Truthy(call.id)
               /\ nodes' = g.nodes
               /\ rels' = g.rels
               /\ nodeProps' = (n :> MergedProperties(nodeProps, n[1], n[2], call.props))
                                   @@ nodeProps
        /\ Stepped(r)
        /\ UNCHANGED <<batch, classes, tables, calls, pc, phase, schema, ddl, loader, result, syncs, runNo, prev, same, textVars, idVars>>

\* run r: its next store call, a _merge_relationship
ConcMergeRelationship ==
    \E r \in 1..2 :
        /\ conc.pc[r] >= 1
        /\ conc.pc[r] <= Len(conc.calls[r])
        /\ LET call == conc.calls[r][conc.pc[r]]
               g == MergeRelationship(Graph, call.label, call.id, call.rel,
                                      call.end_label, call.end_id)
           IN  /\ call.op = "rel"
               /\ nodes' = g.nodes
               /\ rels' = g.rels
        /\ Stepped(r)
        /\ UNCHANGED <<batch, classes, tables, calls, pc, phase, nodeProps, schema, ddl, loader, result, syncs, runNo, prev, same, textVars, idVars>>

ConcNext == ConcEnsureSchema \/ ConcMergeNode \/ ConcMergeRelationship

SpecConc == ConcInit /\ [][ConcNext]_vars

-----------------------------------------------------------------------------
(* Vocabulary for the claims about whole documents *)

\* parse has returned for the documents in batch, and classes and tables hold its output
Parsed == phase \in {"constraints", "indexes", "sync", "closed", "done"}

RECURSIVE OuterContainers(_, _, _)
RECURSIVE OuterOfChildren(_, _, _)

\* the class and table elements of a tree that lie inside no other class or table
\* element, in document order, each with the name of its nearest enclosing model or
\* package element that has a name (None: there is none) and with its document
OuterContainers(element, ctx, file) ==
    IF IsClass(element) \/ IsTable(element)
    THEN <<[element |-> element, ctx |-> ctx, file |-> file]>>
    ELSE OuterOfChildren(element.children,
                         IF IsContext(element) /\ Truthy(element.name) THEN element.name
                         ELSE ctx,
                         file)

OuterOfChildren(children, ctx, file) ==
    IF children = <<>> THEN <<>>
    ELSE OuterContainers(Head(children), ctx, file) \o OuterOfChildren(Tail(children), ctx, file)

\* the outer class and table elements of the documents
DocContainers(documents) ==
    Flatten([i \in 1..Len(documents) |->
                OuterContainers(documents[i].root, None, documents[i].file)])

OuterClasses == {v \in Elems(DocContainers(batch)) : IsClass(v.element)}

OuterTables == {v \in Elems(DocContainers(batch)) : IsTable(v.element)}

RECURSIVE Inside(_)
\* the elements strictly inside an element
Inside(element) == UNION {{c} \cup Inside(c) : c \in Elems(element.children)}

\* the names the documents give to classes, tables, methods and fields
GivenNames ==
    [class |-> {v.element.name : v \in OuterClasses},
     table |-> {v.element.name : v \in OuterTables},
     method |-> UNION {{m.name : m \in Elems(v.element.methods)} : v \in OuterClasses},
     field |-> UNION {Elems(v.element.fields) : v \in OuterTables}]

\* the names of the classes, tables, methods and fields of the parse output
OutputNames ==
    [class |-> {c.name : c \in Elems(ClassList)},
     table |-> {t.name : t \in TableSet},
     method |-> {m.name : m \in MethodSet},
     field |-> UNION {FieldNames(t) : t \in TableSet}]

Kinds == {"class", "table", "method", "field"}

\* the documents hold an element of this kind without a name
HasNameless(kind) == \E n \in GivenNames[kind] : ~Truthy(n)

\* a nameless element of this kind was given a placeholder name: the output holds an
\* entity of the kind under a name that no element gives
GotPlaceholder(kind) ==
    HasNameless(kind) /\ \E n \in OutputNames[kind] : n \notin GivenNames[kind]

\* the nameless elements of this kind were skipped
WasSkipped(kind) ==
    HasNameless(kind) /\ \A n \in OutputNames[kind] : n \in GivenNames[kind]

(* C21 - uniform missing-name policy.  When parse returns, the entity kinds *)
(* with a nameless element in the documents were all treated alike: no kind *)
(* was skipped while another kind was given a placeholder name.             *)
C21_UniformMissingNamePolicy ==
    Parsed => ~(\E k1 \in Kinds, k2 \in Kinds : GotPlaceholder(k1) /\ WasSkipped(k2))

\* positions of the nameless outer elements among the outer containers
NamelessPositions(IsKind(_)) ==
    LET visits == DocContainers(batch)
    IN  {i \in 1..Len(visits) : IsKind(visits[i].element) /\ ~Truthy(visits[i].element.name)}

DistinctFiles == \A i \in 1..Len(batch) : \A j \in 1..Len(batch) :
                    i # j => batch[i].file # batch[j].file

(* C22 - placeholder names depend on position.  When parse returns for      *)
(* documents of different paths, every nameless class (table) element at an *)
(* outer position has an entry of its own in the output: there are as many  *)
(* entries under names that no element gives as there are such positions.   *)
C22_PlaceholderPerPosition ==
    (Parsed /\ DistinctFiles) =>
        /\ Cardinality({i \in 1..Len(classes) : classes[i].v.name \notin GivenNames.class})
              = Cardinality(NamelessPositions(IsClass))
        /\ Cardinality({i \in 1..Len(tables) : tables[i].v.name \notin GivenNames.table})
              = Cardinality(NamelessPositions(IsTable))

(* C23 - no descent into containers.  When parse returns, every class       *)
(* (table) of the output comes from a class (table) element that lies in no *)
(* other class or table element, and its model is the name of the nearest   *)
(* named model or package element enclosing that element (UNKNOWN if none): *)
(* nothing inside a container adds an entry or changes a model.             *)
C23_NoDescent ==
    Parsed =>
        /\ \A c \in Elems(ClassList) : \E v \in OuterClasses :
              /\ c.name = ParseClass(v.element, v.ctx, v.ctx, v.file).name
              /\ c.model = Or(v.ctx, UNKNOWN)
        /\ \A t \in TableSet : \E v \in OuterTables :
              /\ t.name = ParseTable(v.element, v.ctx, v.ctx, v.file).name
              /\ t.model = Or(v.ctx, UNKNOWN)

\* parse has returned for a document in which a class holds a class and a named model
\* element and is followed by another class, and a table holds a table
C23_Witness ==
    /\ Parsed
    /\ \E v \in OuterClasses :
          /\ \E n \in Inside(v.element) : IsClass(n) /\ n.name \notin GivenNames.class
          /\ \E n \in Inside(v.element) : IsContext(n) /\ Truthy(n.name) /\ n.name # v.ctx
    /\ \E v \in OuterTables : \E n \in Inside(v.element) : IsTable(n)
    /\ Len(classes) = 2
    /\ Len(tables) = 2

(* C30 - model and package come from the same element.  When parse returns, *)
(* every class and table of the output either has model UNKNOWN and no      *)
(* package, its element lying in no named model or package element, or has  *)
(* a package equal to its model, both being the name of the nearest named   *)
(* model or package element around its element.                             *)
C30_ModelAndPackageTogether ==
    Parsed =>
        /\ \A c \in Elems(ClassList) : \E v \in OuterClasses :
              /\ c.name = ParseClass(v.element, v.ctx, v.ctx, v.file).name
              /\ \/ ~Truthy(v.ctx) /\ c.model = UNKNOWN /\ c.package = None
                 \/ Truthy(v.ctx) /\ c.model = v.ctx /\ c.package = v.ctx
        /\ \A t \in TableSet : \E v \in OuterTables :
              /\ t.name = ParseTable(v.element, v.ctx, v.ctx, v.file).name
              /\ \/ ~Truthy(v.ctx) /\ t.model = UNKNOWN /\ t.package = None
                 \/ Truthy(v.ctx) /\ t.model = v.ctx /\ t.package = v.ctx

\* parse has returned a table outside any model, classes of ModuleA, and a table of the
\* package ModuleB that lies inside the model ModuleA
C30_Witness ==
    /\ Parsed
    /\ \E t \in TableSet : t.model = UNKNOWN /\ t.package = None
    /\ \E c \in Elems(ClassList) : c.model = ModuleA /\ c.package = ModuleA
    /\ \E t \in TableSet : t.model = ModuleB /\ t.package = ModuleB
    /\ \E d \in Elems(batch) : \E m \in Inside(d.root) :
          /\ FoldSeq(m.tag) = TagModel
          /\ m.name = ModuleA
          /\ \E q \in Inside(m) : FoldSeq(q.tag) = TagPackage /\ q.name = ModuleB

\* the FieldAccess records attached to the methods of the parse output
AccessRecords ==
    UNION {{[method |-> m, access |-> m.field_accesses[i]] : i \in 1..Len(m.field_accesses)} :
           m \in MethodSet}

\* the canonical ids of the fields declared by the tables of the parse output
DeclaredFieldIds ==
    UNION {{field_element_id(t.fields[i].v) : i \in 1..Len(t.fields)} : t \in TableSet}

(* C25 - field accesses point at declared fields.  When parse returns,      *)
(* every FieldAccess record of a method has a target id that is the id of a *)
(* field declared in the batch, and when the first ingest into the empty    *)
(* store is done the store holds the READS_FIELD or WRITES_FIELD            *)
(* relationship of every record.                                            *)
C25_AccessTargetsDeclared ==
    /\ Parsed => \A a \in AccessRecords : target_field_id(a.access) \in DeclaredFieldIds
    /\ FirstRunDone =>
          \A a \in AccessRecords :
              BagIn(<<NODE_METHOD, method_element_id(a.method),
                      IF a.access.access_type = "read" THEN REL_READS_FIELD
                      ELSE REL_WRITES_FIELD,
                      NODE_FIELD, target_field_id(a.access)>>, rels)

(* C26 - reads and writes exclude each other.  In every state of the store, *)
(* whatever versions of the documents were ingested before, no Method node  *)
(* has both a READS_FIELD and a WRITES_FIELD relationship to one Field      *)
(* node.                                                                    *)
C26_ReadXorWrite ==
    \A r \in DOMAIN rels :
        r[3] = REL_READS_FIELD =>
            ~BagIn(<<r[1], r[2], REL_WRITES_FIELD, r[4], r[5]>>, rels)

\* some document of the batch is not well-formed
HasMalformed == \E d \in Elems(batch) : ~d.wellformed

(* C27 - a malformed document aborts ingest before any store call.  With a  *)
(* malformed document anywhere in the batch, ingest can only raise, and the *)
(* step that raises changes neither graph nor schema and creates no loader; *)
(* once ingest has raised, the store is as the previous ingest left it and  *)
(* this ingest has issued no statement and no call.                         *)
C27_MalformedAborts ==
    /\ [][(phase = "parse" /\ HasMalformed) =>
             (/\ phase' = "raised"
              /\ nodes' = nodes
              /\ rels' = rels
              /\ nodeProps' = nodeProps
              /\ schema' = schema
              /\ ddl' = ddl
              /\ loader' = loader)]_vars
    /\ [](phase = "raised" =>
             (/\ HasMalformed
              /\ Graph = prev
              /\ ddl = {}
              /\ syncs = 0
              /\ loader = "none"
              /\ ~result.returned))

\* ingest has raised on a batch whose second document is malformed, with a store that
\* an earlier ingest has filled
C27_Witness ==
    /\ phase = "raised"
    /\ Len(batch) = 2
    /\ batch[1].wellformed
    /\ ~batch[2].wellformed
    /\ nodes # EmptyBag
    /\ schema # {}

\* the nodes of the store under a label
NodesOf(label) == {n \in DOMAIN nodes : n[1] = label}

\* positions of the method (field) entries of the parse output
MethodEntries == UNION {{<<i, j>> : j \in 1..Len(classes[i].v.methods)} : i \in 1..Len(classes)}

FieldEntries == UNION {{<<i, j>> : j \in 1..Len(tables[i].v.fields)} : i \in 1..Len(tables)}

C29_Containment ==
    (phase \in {"closed", "done"} /\ runNo = 1) =>
        /\ \A c \in Elems(ClassList) : \A i \in 1..Len(c.methods) :
              BagIn(<<NODE_CLASS, element_id(c), REL_DECLARES_METHOD,
                      NODE_METHOD, method_element_id(c.methods[i].v)>>, rels)
        /\ \A t \in TableSet : \A i \in 1..Len(t.fields) :
              BagIn(<<NODE_TABLE, element_id(t), REL_HAS_FIELD,
                      NODE_FIELD, field_element_id(t.fields[i].v)>>, rels)
        /\ \A n \in NodesOf(NODE_METHOD) : \E r \in DOMAIN rels :
              r[3] = REL_DECLARES_METHOD /\ r[4] = n[1] /\ r[5] = n[2]
        /\ \A n \in NodesOf(NODE_FIELD) : \E r \in DOMAIN rels :
              r[3] = REL_HAS_FIELD /\ r[4] = n[1] /\ r[5] = n[2]

\* the first sync_ir has returned for two classes with methods and two tables, one of
\* them with a field
C29_Witness ==
    /\ phase = "closed"
    /\ runNo = 1
    /\ Len(classes) = 2
    /\ \A c \in Elems(ClassList) : Len(c.methods) >= 1
    /\ Len(tables) = 2
    /\ \E t \in TableSet : Len(t.fields) >= 1

-----------------------------------------------------------------------------
(* Vocabulary for the claim about concurrent runs *)

RECURSIVE RunCalls(_, _)
\* the graph after one run has issued these store calls, alone, on graph g
RunCalls(g, run_calls) ==
    IF run_calls = <<>> THEN g
    ELSE RunCalls(IF Head(run_calls).op = "node"
                  THEN MergeNode(g, Head(run_calls).label, Head(run_calls).id)
                  ELSE MergeRelationship(g, Head(run_calls).label, Head(run_calls).id,
                                         Head(run_calls).rel, Head(run_calls).end_label,
                                         Head(run_calls).end_id),
                  Tail(run_calls))

EmptyGraph == [nodes |-> EmptyBag, rels |-> EmptyBag]

\* the final graphs of the two serial executions of the runs
SerialFinals ==
    {RunCalls(RunCalls(EmptyGraph, conc.calls[1]), conc.calls[2]),
     RunCalls(RunCalls(EmptyGraph, conc.calls[2]), conc.calls[1])}

\* both runs have returned
ConcDone == \A r \in 1..2 : conc.pc[r] > Len(conc.calls[r])

\* the next store call of run r is a relationship upsert with an endpoint that the
\* store does not hold
DanglingNext(r) ==
    /\ conc.pc[r] >= 1
    /\ conc.pc[r] <= Len(conc.calls[r])
    /\ LET call == conc.calls[r][conc.pc[r]]
       IN  /\ call.op = "rel"
           /\ \/ ~BagIn(<<call.label, call.id>>, nodes)
              \/ ~BagIn(<<call.end_label, call.end_id>>, nodes)

(* C24 - concurrent runs are not serializable.  What makes them so: a       *)
(* relationship upsert that finds an endpoint missing writes nothing and is *)
(* not repeated when the other run creates the endpoint later, so the       *)
(* relationships of the final graph depend on the interleaving.  The nodes  *)
(* of the final graph do not (they are those of either serial execution),   *)
(* and two runs that did not overlap end in the graph of a serial           *)
(* execution.  Overlapping runs can end in a graph that is the final graph *)
(* of neither serial execution.                                             *)
C24_CheckThenAct ==
    /\ [][\A r \in 1..2 :
            (DanglingNext(r) /\ conc'.pc[r] = conc.pc[r] + 1) => (rels' = rels /\ nodes' = nodes)]_vars
    /\ [](ConcDone => \A g \in SerialFinals : g.nodes = nodes)
    /\ []((ConcDone /\ ~conc.overlapped) => Graph \in SerialFinals)

\* both runs have returned and the graph is the final graph of neither serial
\* execution: an EXTENDS or CALLS relationship of one of them is missing
C24_Witness ==
    /\ ConcDone
    /\ conc.overlapped
    /\ Graph \notin SerialFinals
    /\ \E g \in SerialFinals : \E r \in DOMAIN g.rels :
          r[3] \in {REL_EXTENDS, REL_CALLS} /\ ~BagIn(r, rels)

====
